---- MODULE Spec2Model ----
(***************************************************************************)
(* Ticketing system: the resilient API client (agent/tools.py) and the     *)
(* ticket service with its in-memory store (api/routes.py,                 *)
(* api/database.py, API/models.py).                                        *)
(*                                                                         *)
(* Several specifications share the module.  SpecClient runs one           *)
(* APIClient through calls of _make_request_with_retry against an          *)
(* environment that decides the outcome of every session.request, and      *)
(* SpecTools runs the TicketingTools operations on top of it.              *)
(* SpecService and SpecUpdate run the route handlers, one request at a     *)
(* time (the handlers are `async def` bodies without an await, so each     *)
(* runs to completion on the event loop), against the TicketDatabase;      *)
(* SpecMiddleware puts NetworkSimulationMiddleware in front of them.       *)
(* SpecSeeded starts them from the sample data of the running              *)
(* application.  SpecStore and SpecHandlers run concurrent callers of the  *)
(* store, the store methods and the update and delete handlers statement   *)
(* by statement; SpecCalls runs concurrent callers of one APIClient.       *)
(* SpecDatabase calls the store's methods directly.  SpecSession puts the  *)
(* HTTPAdapter mounted on the session, with its urllib3 Retry, under the   *)
(* retry loop; SpecEndToEnd joins a tool operation, the retry loop, the    *)
(* session, the middleware and the handler; SpecHandleResponse applies     *)
(* _handle_response to every status and body.                              *)
(*                                                                         *)
(* config/settings.py imports pydantic_settings, so the models are         *)
(* pydantic 2 models: a class validator also runs on an explicit null,     *)
(* and a handler that returns an instance of its response_model has it     *)
(* serialised as it is, without another validation.                        *)
(*                                                                         *)
(* Optional values: None is <<>> and a present value v is <<v>>.           *)
(***************************************************************************)
EXTENDS Integers, Sequences, FiniteSets, TLC

VARIABLES
    retry_config,    \* APIClient.retry_config: max_retries, base_delay, backoff_factor
    pc,              \* position of the caller in _make_request_with_retry
    attempt,         \* loop variable of `for attempt in range(max_retries)`
    last_exception,  \* local last_exception
    outcomes,        \* what session.request did on each attempt of the current call
    sleeps,          \* arguments of time.sleep during the current call, in order
    result,          \* what the call returned or raised
    calls,           \* the calls of several callers on one client: each one's frame
    session,         \* APIClient.session: the adapter's retries left, the requests sent
    tickets,         \* TicketDatabase._tickets: id -> Ticket
    clock,           \* the value datetime.now() returns next
    last,            \* the request just handled and its response, until it is sent
    deleted,         \* history: ids deleted and not returned by a create since
    tool,            \* the TicketingTools operation in progress and its arguments
    envelope,        \* what the last TicketingTools operation returned
    api_settings,    \* min_latency, max_latency, failure_rate of the middleware
    sim,             \* the draws NetworkSimulationMiddleware made for the request
    lock,            \* TicketDatabase._lock: the thread that holds it, if any
    threads          \* the callers running concurrently: operation, position, locals

clientVars  == <<retry_config, pc, attempt, last_exception, outcomes, sleeps,
                 result, calls, session>>
serviceVars == <<tickets, clock, last, deleted>>
toolVars    == <<tool, envelope>>
middlewareVars == <<api_settings, sim>>
threadVars  == <<lock, threads>>
vars        == <<clientVars, serviceVars, toolVars, middlewareVars, threadVars>>

None    == <<>>
Some(v) == <<v>>

-----------------------------------------------------------------------------
(* Bounds *)

MaxRetries       == 3   \* largest max_retries tried
MaxBaseDelay     == 2   \* largest base_delay tried
MaxBackoffFactor == 2   \* largest backoff_factor tried
NumIds           == 2   \* number of values uuid4().hex[:8] can take
MaxClock         == 3   \* number of timestamps datetime.now() hands out
NumThreads       == 2   \* number of concurrent callers of the store
PerThread        == 2   \* number of tickets each caller creates
NumCallers       == 2   \* number of concurrent callers of one APIClient

-----------------------------------------------------------------------------
(* Resilient API client: agent/tools.py *)

RetryConfigs ==
    [max_retries : 0..MaxRetries, base_delay : 1..MaxBaseDelay,
     backoff_factor : 1..MaxBackoffFactor]

StatusCodes == {200, 404, 500, 503}

RequestExceptions == {"ConnectionError", "Timeout"}

Response(code)  == [kind |-> "response", status_code |-> code]
Exception(e)    == [kind |-> "exception", exc |-> e]

\* if response.status_code >= 500
IsServerError_Includes4xx(code) == code >= 400

IsServerError(code) == code >= 500

\* range(self.retry_config.max_retries)
LoopBound_OneShort(cfg) == cfg.max_retries - 1

LoopBound_AtLeastOne(cfg) ==
    IF cfg.max_retries < 1 THEN 1 ELSE cfg.max_retries

LoopBound(cfg) == cfg.max_retries

\* if attempt == self.retry_config.max_retries - 1
IsFinalAttempt_OneLate(cfg, k) == k = cfg.max_retries

IsFinalAttempt_OneEarly(cfg, k) == k >= cfg.max_retries - 2

IsFinalAttempt(cfg, k) == k = cfg.max_retries - 1

RECURSIVE Pow(_, _)
Pow(b, e) == IF e = 0 THEN 1 ELSE b * Pow(b, e - 1)

\* delay = base_delay * (backoff_factor ** attempt)
Delay_FromOne(cfg, k) == cfg.base_delay * Pow(cfg.backoff_factor, k + 1)

Delay(cfg, k) == cfg.base_delay * Pow(cfg.backoff_factor, k)

\* position after `continue` / the end of the loop body: next iteration of
\* range(max_retries), or the statements after the loop
NextIteration(cfg, k) == IF k + 1 < LoopBound(cfg) THEN "attempt" ELSE "after"

APIClientError(cfg, cause) ==
    [kind |-> "APIClientError", attempts |-> cfg.max_retries, cause |-> cause]

\* the callers that share one APIClient
Callers == 1..NumCallers

\* the frame of a caller that is in no call: the position in
\* _make_request_with_retry, its locals attempt and last_exception, what
\* session.request did and time.sleep was given during the call, and what
\* the call returned or raised
NoCall ==
    [pc |-> "idle", attempt |-> 0, last_exception |-> None, outcomes |-> <<>>,
     sleeps |-> <<>>, result |-> None]

\* requests.Session() with the HTTPAdapter mounted and no request made: the
\* method of the call, the retries the adapter has left for the request it
\* is sending, the status of the server's answer to every request of the
\* call that reached it, and what session.request gave on each attempt
NoSession ==
    [method |-> None, total |-> 0, wire |-> <<>>, answers |-> <<>>]

\* max_retries is an int that nothing validates: a negative value is a
\* configuration too
MinRetries == 0 - 1

UncheckedRetryConfigs ==
    [max_retries : MinRetries..MaxRetries, base_delay : 1..MaxBaseDelay,
     backoff_factor : 1..MaxBackoffFactor]

InitClient ==
    /\ retry_config \in RetryConfigs
    /\ pc = "idle"
    /\ attempt = 0
    /\ last_exception = None
    /\ outcomes = <<>>
    /\ sleeps = <<>>
    /\ result = None
    /\ calls = [c \in Callers |-> NoCall]
    /\ session = NoSession

\* get / post / put / delete enter _make_request_with_retry
EnterRetryLoop ==
    /\ pc \in {"idle", "returned", "raised"}
    /\ pc' = IF 0 < LoopBound(retry_config) THEN "attempt" ELSE "after"
    /\ attempt' = 0
    /\ last_exception' = None
    /\ outcomes' = <<>>
    /\ sleeps' = <<>>
    /\ result' = None
    /\ UNCHANGED <<retry_config, calls, session, serviceVars, middlewareVars,
                   threadVars>>

\* a call made on the client directly, by no tool
StartCall == EnterRetryLoop /\ UNCHANGED toolVars

\* one loop iteration in which session.request returns a response
AttemptResponse(code) ==
    /\ pc = "attempt"
    /\ outcomes' = Append(outcomes, Response(code))
    /\ IF IsServerError(code)
         THEN IF IsFinalAttempt(retry_config, attempt)
                THEN /\ pc' = "returned"
                     /\ result' = Some(Response(code))
                     /\ UNCHANGED <<attempt, sleeps>>
                ELSE /\ sleeps' = Append(sleeps, Delay(retry_config, attempt))
                     /\ pc' = NextIteration(retry_config, attempt)
                     /\ attempt' = attempt + 1
                     /\ UNCHANGED result
         ELSE /\ pc' = "returned"
              /\ result' = Some(Response(code))
              /\ UNCHANGED <<attempt, sleeps>>
    /\ UNCHANGED <<retry_config, last_exception, calls, session, serviceVars,
                   toolVars, middlewareVars, threadVars>>

\* one loop iteration in which session.request raises a RequestException
AttemptException(e) ==
    /\ pc = "attempt"
    /\ outcomes' = Append(outcomes, Exception(e))
    /\ last_exception' = Some(e)
    /\ IF IsFinalAttempt(retry_config, attempt)
         THEN /\ pc' = "after"
              /\ UNCHANGED <<attempt, sleeps>>
         ELSE /\ sleeps' = Append(sleeps, Delay(retry_config, attempt))
              /\ pc' = NextIteration(retry_config, attempt)
              /\ attempt' = attempt + 1
    /\ UNCHANGED <<retry_config, result, calls, session, serviceVars,
                   toolVars, middlewareVars, threadVars>>

\* the statements after the loop: both raise APIClientError
RaiseAfterLoop ==
    /\ pc = "after"
    /\ pc' = "raised"
    /\ result' = Some(APIClientError(retry_config, last_exception))
    /\ UNCHANGED <<retry_config, attempt, last_exception, outcomes, sleeps,
                   calls, session, serviceVars, toolVars, middlewareVars,
                   threadVars>>

NextClient ==
    \/ StartCall
    \/ \E code \in StatusCodes : AttemptResponse(code)
    \/ \E e \in RequestExceptions : AttemptException(e)
    \/ RaiseAfterLoop

\* Several callers on one client.  A call of _make_request_with_retry keeps
\* attempt and last_exception in its own frame; of the client it reads
\* retry_config and session.

\* lines 75 and 77: the locals the statements of caller c's call use
Locals_OnClient(c) ==
    [attempt |-> calls[1].attempt, last_exception |-> calls[1].last_exception]

Locals(c) ==
    [attempt |-> calls[c].attempt, last_exception |-> calls[c].last_exception]

CallsFrame ==
    UNCHANGED <<retry_config, pc, attempt, last_exception, outcomes, sleeps,
                result, session, serviceVars, toolVars, middlewareVars, threadVars>>

\* caller c enters _make_request_with_retry
call_enter(c) ==
    /\ calls[c].pc \in {"idle", "returned", "raised"}
    /\ calls' = [calls EXCEPT ![c] =
           [NoCall EXCEPT !.pc = IF 0 < LoopBound(retry_config)
                                   THEN "attempt" ELSE "after"]]
    /\ CallsFrame

\* one loop iteration of caller c in which session.request returns
call_response(c, code) ==
    /\ calls[c].pc = "attempt"
    /\ LET k    == Locals(c).attempt
           done == [calls[c] EXCEPT !.outcomes = Append(@, Response(code)),
                                   !.pc = "returned",
                                   !.result = Some(Response(code))]
       IN  calls' = [calls EXCEPT ![c] =
               IF IsServerError(code) /\ ~ IsFinalAttempt(retry_config, k)
                 THEN [@ EXCEPT !.outcomes = Append(@, Response(code)),
                                !.sleeps = Append(@, Delay(retry_config, k)),
                                !.pc = NextIteration(retry_config, k),
                                !.attempt = k + 1]
                 ELSE done]
    /\ CallsFrame

\* one loop iteration of caller c in which session.request raises
call_exception(c, e) ==
    /\ calls[c].pc = "attempt"
    /\ LET k == Locals(c).attempt
       IN  calls' = [calls EXCEPT ![c] =
               IF IsFinalAttempt(retry_config, k)
                 THEN [@ EXCEPT !.outcomes = Append(@, Exception(e)),
                                !.last_exception = Some(e),
                                !.pc = "after"]
                 ELSE [@ EXCEPT !.outcomes = Append(@, Exception(e)),
                                !.last_exception = Some(e),
                                !.sleeps = Append(@, Delay(retry_config, k)),
                                !.pc = NextIteration(retry_config, k),
                                !.attempt = k + 1]]
    /\ CallsFrame

\* the statements after the loop, for caller c
call_raise(c) ==
    /\ calls[c].pc = "after"
    /\ calls' = [calls EXCEPT ![c] =
           [@ EXCEPT !.pc = "raised",
                     !.result = Some(APIClientError(retry_config,
                                         Locals(c).last_exception))]]
    /\ CallsFrame

\* what session.request does for the concurrent callers
CallOutcomes == {Response(200), Response(503)}
                \cup {Exception(e) : e \in RequestExceptions}

NextCalls ==
    \/ \E c \in Callers : call_enter(c)
    \/ \E c \in Callers, o \in {x \in CallOutcomes : x.kind = "response"} :
           call_response(c, o.status_code)
    \/ \E c \in Callers, o \in {x \in CallOutcomes : x.kind = "exception"} :
           call_exception(c, o.exc)
    \/ \E c \in Callers : call_raise(c)

-----------------------------------------------------------------------------
(* Ticket service: API/models.py, api/exception.py, api/database.py,       *)
(* api/routes.py                                                           *)

\* a field of a request body that the client did not send
Unset == <<"UNSET", "UNSET">>

TicketStatus == {"OPEN", "RESOLVED", "CLOSED"}

\* [status.value for status in TicketStatus], in declaration order
ValidStatuses == <<"OPEN", "RESOLVED", "CLOSED">>

\* ticket_id = f"ticket-{uuid4().hex[:8]}", h the value of the 8 hex digits
TicketId(h) == <<"ticket-", h>>

IdSpace == {TicketId(h) : h \in 1..NumIds}

StrLen(s) == Len(s)

\* bodies of POST /tickets
CreateBodies ==
    [title : {"", "T1"}, description : {"D1"},
     comments : {Unset, None, Some(<<"c1">>)}]

\* bodies of PUT /tickets/{id}: every field is unset, null or a value
UpdateBodies ==
    [title       : {Unset, None, Some(""), Some("T2")},
     description : {Unset, Some("D2")},
     status      : {Unset, None, Some("OPEN"), Some("RESOLVED"), Some("CLOSED"),
                    Some("PROGRESS")},
     resolution  : {Unset, None, Some(""), Some("R1")},
     comments    : {Unset, Some(<<"c2">>)}]

UpdateFields == {"title", "description", "status", "resolution", "comments"}

\* the value a model attribute has for a body field: an unset field reads
\* as its default None
Attr(body, f) == IF body[f] = Unset THEN None ELSE body[f]

\* Python truthiness of an Optional[str]
Truthy(v) == v # None /\ v[1] # ""

\* TicketBase.comments: Field(default_factory=list)
CreateComments(b) == IF b.comments = Unset THEN Some(<<>>) ELSE b.comments

\* ticket_data.comments or []
OrEmptyList(v) == IF v = None \/ v = Some(<<>>) THEN Some(<<>>) ELSE v

\* Field(..., min_length=lo, max_length=hi)
LengthOk(str, lo, hi) == StrLen(str) >= lo /\ StrLen(str) <= hi

\* TicketBase / TicketCreate: the fields that fail, title 1..200 and
\* description 1..1000
CreateBodyErrors(b) ==
    {f \in {"title"} : ~ LengthOk(b.title, 1, 200)}
    \cup {f \in {"description"} : ~ LengthOk(b.description, 1, 1000)}

\* TicketUpdate.validate_resolution, with values.get('status')
validate_resolution(status, v) == ~ (status = Some("RESOLVED") /\ ~ Truthy(v))

\* TicketUpdate: the fields that fail.  status is Optional[TicketStatus];
\* the validator of resolution runs when the body carries the field and
\* sees the status only if that one validated.
UpdateBodyErrors(b) ==
    {f \in {"title"} :
        Attr(b, f) # None /\ ~ LengthOk(b[f][1], 1, 200)}
    \cup {f \in {"description"} :
        Attr(b, f) # None /\ ~ LengthOk(b[f][1], 1, 1000)}
    \cup {f \in {"status"} :
        Attr(b, f) # None /\ b[f][1] \notin TicketStatus}
    \cup {f \in {"resolution"} :
        \/ Attr(b, f) # None /\ ~ LengthOk(b[f][1], 0, 500)
        \/ /\ b[f] # Unset
           /\ ~ validate_resolution(
                  IF Attr(b, "status") # None /\ b.status[1] \in TicketStatus
                    THEN b.status ELSE None, b[f])}

\* the first failing field of a body, in declaration order
FirstError(errors) ==
    CHOOSE f \in errors :
        \A g \in errors :
            LET rank == [title |-> 1, description |-> 2, status |-> 3,
                         resolution |-> 4, comments |-> 5]
            IN  rank[f] <= rank[g]

\* api/exception.py
TicketNotFoundError_OtherId(id) ==
    [error |-> "TicketNotFoundError", status_code |-> 404,
     ticket_id |-> <<"ticket-", 0>>]

TicketNotFoundError(id) ==
    [error |-> "TicketNotFoundError", status_code |-> 404, ticket_id |-> id]

InvalidStatusError(status, valid_statuses) ==
    [error |-> "InvalidStatusError", status_code |-> 422, status |-> status,
     valid_statuses |-> valid_statuses]

ValidationError(message) ==
    [error |-> "ValidationError", status_code |-> 422, message |-> message]

\* FastAPI's answer to a body or query that fails its pydantic model: the
\* detail is the list of pydantic errors, here the one error's field and input
RequestValidationError(loc, input) ==
    [error |-> "RequestValidationError", status_code |-> 422, loc |-> loc,
     input |-> input]

\* TicketDatabase
db_get_ticket_by_id(db, id) == IF id \in DOMAIN db THEN Some(db[id]) ELSE None

db_ticket_exists(db, id) == id \in DOMAIN db

db_create_ticket_DropsOthers(db, t) == [k \in {t.id} |-> t]

db_create_ticket(db, t) ==
    [k \in DOMAIN db \cup {t.id} |-> IF k = t.id THEN t ELSE db[k]]

db_update_ticket_NoStamp(db, id, t, now) ==
    IF id \in DOMAIN db THEN [db EXCEPT ![id] = t] ELSE db

db_update_ticket_Upserts(db, id, t, now) ==
    [k \in DOMAIN db \cup {id} |->
        IF k = id THEN [t EXCEPT !.updated = Some(now)] ELSE db[k]]

db_update_ticket(db, id, t, now) ==
    IF id \in DOMAIN db
      THEN [db EXCEPT ![id] = [t EXCEPT !.updated = Some(now)]]
      ELSE db

db_delete_ticket_Keeps(db, id) == db

db_delete_ticket(db, id) == [k \in DOMAIN db \ {id} |-> db[k]]

RECURSIVE SortedByCreatedDesc(_)
SortedByCreatedDesc(S) ==
    IF S = {} THEN <<>>
    ELSE LET t == CHOOSE x \in S : \A y \in S : y.created <= x.created
         IN  <<t>> \o SortedByCreatedDesc(S \ {t})

db_get_all_tickets_Unfiltered(db, status_filter) ==
    SortedByCreatedDesc({db[k] : k \in DOMAIN db})

db_get_all_tickets(db, status_filter) ==
    LET all  == {db[k] : k \in DOMAIN db}
        kept == IF status_filter # None
                  THEN {t \in all : t.status = status_filter}
                  ELSE all
    IN  SortedByCreatedDesc(kept)

\* one request and the response the service gave to it
Reply(op, id, body, code, detail, content) ==
    [op |-> op, ticket_id |-> id, body |-> body, status_code |-> code,
     detail |-> detail, content |-> content]

\* no response is on its way
NoRequest == Reply("none", None, None, 0, None, None)

InitService ==
    /\ tickets = <<>>
    /\ clock = 1
    /\ last = NoRequest
    /\ deleted = {}

\* POST /tickets
create_ticket(b, h) ==
    /\ last = NoRequest
    /\ UNCHANGED <<clientVars, toolVars, threadVars>>
    /\ IF CreateBodyErrors(b) # {}
         THEN /\ last' = Reply("create_ticket", None, Some(b), 422,
                               Some(RequestValidationError(
                                   FirstError(CreateBodyErrors(b)),
                                   Some(b[FirstError(CreateBodyErrors(b))]))),
                               None)
              /\ UNCHANGED <<tickets, clock, deleted>>
         ELSE /\ clock <= MaxClock
              /\ LET new_ticket ==
                         [id          |-> TicketId(h),
                          title       |-> Some(b.title),
                          description |-> Some(b.description),
                          comments    |-> OrEmptyList(CreateComments(b)),
                          created     |-> clock,
                          updated     |-> None,
                          status      |-> Some("OPEN"),
                          resolution  |-> None]
                IN  /\ tickets' = db_create_ticket(tickets, new_ticket)
                    /\ last' = Reply("create_ticket", None, Some(b), 201,
                                     None, Some(new_ticket))
                    /\ deleted' = deleted \ {new_ticket.id}
              /\ clock' = clock + 1

\* GET /tickets?status=
get_tickets_EmptyIs404(status) ==
    /\ last = NoRequest
    /\ UNCHANGED <<clientVars, toolVars, threadVars>>
    /\ IF status # None /\ status[1] \notin TicketStatus
         THEN last' = Reply("get_tickets", None, status, 422,
                            Some(RequestValidationError("status", status)),
                            None)
         ELSE IF db_get_all_tickets(tickets, status) = <<>>
           THEN last' = Reply("get_tickets", None, status, 404, None, None)
           ELSE last' = Reply("get_tickets", None, status, 200, None,
                              Some(db_get_all_tickets(tickets, status)))
    /\ UNCHANGED <<tickets, clock, deleted>>

get_tickets(status) ==
    /\ last = NoRequest
    /\ UNCHANGED <<clientVars, toolVars, threadVars>>
    /\ IF status # None /\ status[1] \notin TicketStatus
         THEN last' = Reply("get_tickets", None, status, 422,
                            Some(RequestValidationError("status", status)),
                            None)
         ELSE last' = Reply("get_tickets", None, status, 200, None,
                            Some(db_get_all_tickets(tickets, status)))
    /\ UNCHANGED <<tickets, clock, deleted>>

\* GET /tickets/{ticket_id}
get_ticket(ticket_id) ==
    /\ last = NoRequest
    /\ UNCHANGED <<clientVars, toolVars, threadVars>>
    /\ LET ticket == db_get_ticket_by_id(tickets, ticket_id)
       IN  IF ticket = None
             THEN last' = Reply("get_ticket", Some(ticket_id), None, 404,
                                Some(TicketNotFoundError(ticket_id)), None)
             ELSE last' = Reply("get_ticket", Some(ticket_id), None, 200,
                                None, ticket)
    /\ UNCHANGED <<tickets, clock, deleted>>

\* update_data = ticket_update.dict(exclude_unset=True), applied with setattr
ApplyUpdates_AllFields(t, b) ==
    [f \in DOMAIN t |-> IF f \in UpdateFields THEN Attr(b, f) ELSE t[f]]

ApplyUpdates_KeepsStatus(t, b) ==
    [f \in DOMAIN t |->
        IF f \in UpdateFields \ {"status"} /\ b[f] # Unset THEN b[f] ELSE t[f]]

ApplyUpdates(t, b) ==
    [f \in DOMAIN t |->
        IF f \in UpdateFields /\ b[f] # Unset THEN b[f] ELSE t[f]]

\* the check of lines 100-102: RESOLVED asked for, no resolution in the
\* body and none on the record
ResolutionMissing_Unchecked(b, existing) == FALSE

ResolutionMissing_IgnoresRecord(b, existing) ==
    /\ b.status = Some("RESOLVED")
    /\ ~ Truthy(Attr(b, "resolution"))

ResolutionMissing(b, existing) ==
    /\ b.status = Some("RESOLVED")
    /\ ~ Truthy(Attr(b, "resolution"))
    /\ ~ Truthy(existing.resolution)

\* PUT /tickets/{ticket_id}, had the handler applied the patch before its
\* checks
update_ticket_AppliesFirst(ticket_id, b) ==
    LET existing_ticket == db_get_ticket_by_id(tickets, ticket_id)
        fail(code, detail) ==
            /\ last' = Reply("update_ticket", Some(ticket_id), Some(b), code,
                             Some(detail), None)
            /\ tickets' = IF existing_ticket = None \/ UpdateBodyErrors(b) # {}
                            THEN tickets
                            ELSE [tickets EXCEPT ![ticket_id] =
                                     ApplyUpdates(existing_ticket[1], b)]
            /\ UNCHANGED <<clock, deleted>>
    IN  /\ last = NoRequest
        /\ UNCHANGED <<clientVars, toolVars, threadVars>>
        /\ IF UpdateBodyErrors(b) # {}
             THEN fail(422, RequestValidationError(
                                FirstError(UpdateBodyErrors(b)),
                                b[FirstError(UpdateBodyErrors(b))]))
           ELSE IF existing_ticket = None
             THEN fail(404, TicketNotFoundError(ticket_id))
           ELSE IF Truthy(Attr(b, "status"))
                   /\ ResolutionMissing(b, existing_ticket[1])
             THEN fail(422, ValidationError("Resolution note is required"))
           ELSE /\ clock <= MaxClock
                /\ LET patched == ApplyUpdates(existing_ticket[1], b)
                       db      == db_update_ticket(tickets, ticket_id, patched,
                                                   clock)
                   IN  /\ tickets' = db
                       /\ last' = Reply("update_ticket", Some(ticket_id),
                                        Some(b), 200, None,
                                        Some(db[ticket_id]))
                /\ clock' = clock + 1
                /\ UNCHANGED deleted

\* PUT /tickets/{ticket_id}.  existing_ticket is the stored object itself:
\* the setattr loop writes to the store, and update_ticket stamps the same
\* object again.
update_ticket(ticket_id, b) ==
    LET existing_ticket == db_get_ticket_by_id(tickets, ticket_id)
        fail(code, detail) ==
            /\ last' = Reply("update_ticket", Some(ticket_id), Some(b), code,
                             Some(detail), None)
            /\ UNCHANGED <<tickets, clock, deleted>>
    IN  /\ last = NoRequest
        /\ UNCHANGED <<clientVars, toolVars, threadVars>>
        /\ IF UpdateBodyErrors(b) # {}
             THEN fail(422, RequestValidationError(
                                FirstError(UpdateBodyErrors(b)),
                                b[FirstError(UpdateBodyErrors(b))]))
           ELSE IF existing_ticket = None
             THEN fail(404, TicketNotFoundError(ticket_id))
           ELSE IF Truthy(Attr(b, "status")) /\ b.status[1] \notin TicketStatus
             THEN fail(422, InvalidStatusError(b.status[1], ValidStatuses))
           ELSE IF Truthy(Attr(b, "status"))
                   /\ ResolutionMissing(b, existing_ticket[1])
             THEN fail(422, ValidationError("Resolution note is required"))
           ELSE /\ clock <= MaxClock
                /\ LET patched == ApplyUpdates(existing_ticket[1], b)
                       db      == db_update_ticket(tickets, ticket_id, patched,
                                                   clock)
                   IN  /\ tickets' = db
                       /\ last' = Reply("update_ticket", Some(ticket_id),
                                        Some(b), 200, None,
                                        Some(db[ticket_id]))
                /\ clock' = clock + 1
                /\ UNCHANGED deleted

\* DELETE /tickets/{ticket_id}
delete_ticket(ticket_id) ==
    /\ last = NoRequest
    /\ UNCHANGED <<clientVars, toolVars, threadVars>>
    /\ IF ~ db_ticket_exists(tickets, ticket_id)
         THEN /\ last' = Reply("delete_ticket", Some(ticket_id), None, 404,
                               Some(TicketNotFoundError(ticket_id)), None)
              /\ UNCHANGED <<tickets, clock, deleted>>
         ELSE /\ tickets' = db_delete_ticket(tickets, ticket_id)
              /\ last' = Reply("delete_ticket", Some(ticket_id), None, 200,
                               None, Some("successfully deleted"))
              /\ deleted' = deleted \cup {ticket_id}
              /\ UNCHANGED clock

\* GET /health
health_check ==
    /\ last = NoRequest
    /\ UNCHANGED <<clientVars, toolVars, threadVars>>
    /\ last' = Reply("health_check", None, None, 200, None, Some("healthy"))
    /\ UNCHANGED <<tickets, clock, deleted>>

\* the response leaves the service, which then takes the next request
send_response ==
    /\ last # NoRequest
    /\ last' = NoRequest
    /\ UNCHANGED <<tickets, clock, deleted, clientVars, toolVars, threadVars>>

\* tests/conftest.py: dispatch patched to call_next(request), the request
\* goes to its handler and the middleware draws nothing
no_network_simulation(call_next) == call_next /\ UNCHANGED middlewareVars

StatusFilters == {None} \cup {Some(s) : s \in TicketStatus \cup {"PROGRESS"}}

\* the bodies SpecService sends: status and resolution only
LifecycleBodies ==
    {b \in UpdateBodies :
        b.title = Unset /\ b.description = Unset /\ b.comments = Unset
        /\ b.status # None /\ b.resolution \in {Unset, Some(""), Some("R1")}}

\* requests on every id, updates with the lifecycle bodies
NextService ==
    \/ \E b \in CreateBodies, h \in 1..NumIds :
           no_network_simulation(create_ticket(b, h))
    \/ \E status \in StatusFilters : no_network_simulation(get_tickets(status))
    \/ \E id \in IdSpace : no_network_simulation(get_ticket(id))
    \/ \E id \in IdSpace, b \in LifecycleBodies :
           no_network_simulation(update_ticket(id, b))
    \/ \E id \in IdSpace : no_network_simulation(delete_ticket(id))
    \/ no_network_simulation(health_check)
    \/ no_network_simulation(send_response)

\* requests on one id, updates with every body
NextUpdate ==
    \/ \E b \in CreateBodies : no_network_simulation(create_ticket(b, 1))
    \/ \E status \in StatusFilters : no_network_simulation(get_tickets(status))
    \/ no_network_simulation(get_ticket(TicketId(1)))
    \/ \E b \in UpdateBodies :
           no_network_simulation(update_ticket(TicketId(1), b))
    \/ no_network_simulation(delete_ticket(TicketId(1)))
    \/ no_network_simulation(health_check)
    \/ no_network_simulation(send_response)

\* The running application: main.py seeds the store at startup.

\* the ids "ticket-001" .. "ticket-003" of the sample data: no value of
\* uuid4().hex[:8], numbered below the values TicketId takes
SampleId(n) == <<"ticket-", 0 - n>>

\* TicketDatabase.initialize_sample_data: created is datetime.now() at
\* startup, before every request; updated keeps its default None
SampleTickets ==
    {[id          |-> SampleId(1),
      title       |-> Some("Login issues"),
      description |-> Some("Cannot log into the system"),
      comments    |-> Some(<<"User reported issue at 9 AM">>),
      created     |-> 0,
      updated     |-> None,
      status      |-> Some("OPEN"),
      resolution  |-> None],
     [id          |-> SampleId(2),
      title       |-> Some("Printer not working"),
      description |-> Some("Office printer is not responding"),
      comments    |-> Some(<<"Checked printer status", "Toner was empty">>),
      created     |-> 0,
      updated     |-> None,
      status      |-> Some("RESOLVED"),
      resolution  |-> Some("Replaced toner cartridge")],
     [id          |-> SampleId(3),
      title       |-> Some("Software installation request"),
      description |-> Some("Need Adobe Photoshop installed"),
      comments    |-> Some(<<"Approved by manager", "Installation completed">>),
      created     |-> 0,
      updated     |-> None,
      status      |-> Some("CLOSED"),
      resolution  |-> Some("Software installed and configured")]}

\* the store after lifespan startup
InitSeededService ==
    /\ tickets = [id \in {t.id : t \in SampleTickets} |->
                     CHOOSE t \in SampleTickets : t.id = id]
    /\ clock = 1
    /\ last = NoRequest
    /\ deleted = {}

\* the bodies sent to the seeded store: status and resolution, each unset,
\* null or a value
SeededBodies ==
    {b \in UpdateBodies :
        b.title = Unset /\ b.description = Unset /\ b.comments = Unset}

\* the ids requests on the seeded store name: two of the sample tickets
SeededIds == {SampleId(2), SampleId(3)}

\* requests on the seeded store
NextSeeded ==
    \/ \E b \in {c \in CreateBodies : c.comments = Unset} :
           no_network_simulation(create_ticket(b, 1))
    \/ \E status \in StatusFilters : no_network_simulation(get_tickets(status))
    \/ \E id \in SeededIds : no_network_simulation(get_ticket(id))
    \/ \E id \in SeededIds, b \in SeededBodies :
           no_network_simulation(update_ticket(id, b))
    \/ \E id \in SeededIds : no_network_simulation(delete_ticket(id))
    \/ no_network_simulation(send_response)

-----------------------------------------------------------------------------
(* Failure injection: api/middleware.py *)

\* no request is inside the middleware
NoDispatch == [path |-> None, delay |-> None, random |-> None,
               error_type |-> None, forwarded |-> 0]

\* APISettings: the latencies in units of 0.25 s, the failure rate in
\* hundredths
DefaultApiSettings == [min_latency |-> 1, max_latency |-> 8, failure_rate |-> 25]

ApiSettings ==
    {DefaultApiSettings}
    \cup [min_latency : {0}, max_latency : {0, 1}, failure_rate : {0, 100}]

InitMiddleware ==
    /\ api_settings = DefaultApiSettings
    /\ sim = NoDispatch

\* if request.url.path in [...]
ExemptPaths_NoHealth == {"/docs", "/openapi.json", "/redoc"}

ExemptPaths == {"/health", "/docs", "/openapi.json", "/redoc"}

\* random.uniform(min_latency, max_latency): the two ends of the interval
Uniform(lo, hi) == {lo, hi}

\* random.random(), in hundredths: a value in [0, 1)
RandomValues == {10, 50}

\* random.choice([500, 503])
ErrorTypes_With502 == {500, 502, 503}

ErrorTypes == {500, 503}

\* api/exception.py
SimulatedServerError(error_type) ==
    [error |-> "SimulatedServerError", status_code |-> error_type,
     message |-> IF error_type = 500
                   THEN "Internal Server Error - Simulated failure"
                 ELSE IF error_type = 503
                   THEN "Service Unavailable - Simulated failure"
                 ELSE "Server Error - Simulated failure"]

\* the status of the response made from an exception that leaves dispatch:
\* the exception's own when an exception handler of the application gets
\* it, 500 when it reaches the error handler of the server
RaisedStatus(exc) == {exc.status_code, 500}

\* GET /docs, /openapi.json, /redoc: the pages FastAPI serves itself
docs(path) ==
    /\ last = NoRequest
    /\ last' = Reply("docs", None, None, 200, None, Some(path))
    /\ UNCHANGED <<tickets, clock, deleted, clientVars, toolVars, threadVars>>

\* NetworkSimulationMiddleware.dispatch for a request on `path` whose
\* handler is call_next
dispatch(path, call_next) ==
    IF path \in ExemptPaths
      THEN /\ call_next
           /\ sim' = [path |-> Some(path), delay |-> None, random |-> None,
                      error_type |-> None, forwarded |-> 1]
           /\ UNCHANGED api_settings
      ELSE \E delay \in Uniform(api_settings.min_latency,
                                api_settings.max_latency),
              r \in RandomValues :
             IF r < api_settings.failure_rate
               THEN \E error_type \in ErrorTypes :
                    \E status \in RaisedStatus(SimulatedServerError(error_type)) :
                      /\ last = NoRequest
                      /\ last' = Reply("dispatch", None, None, status,
                                       Some(SimulatedServerError(error_type)),
                                       None)
                      /\ sim' = [path |-> Some(path), delay |-> Some(delay),
                                 random |-> Some(r),
                                 error_type |-> Some(error_type),
                                 forwarded |-> 0]
                      /\ UNCHANGED <<tickets, clock, deleted, api_settings,
                                     clientVars, toolVars, threadVars>>
               ELSE /\ call_next
                    /\ sim' = [path |-> Some(path), delay |-> Some(delay),
                               random |-> Some(r), error_type |-> None,
                               forwarded |-> 1]
                    /\ UNCHANGED api_settings

\* the requests of the application, each through the middleware
POST_tickets(b, h) == dispatch("/tickets", create_ticket(b, h))

GET_tickets(status) == dispatch("/tickets", get_tickets(status))

GET_ticket(ticket_id) == dispatch("/tickets/{ticket_id}", get_ticket(ticket_id))

PUT_ticket(ticket_id, b) ==
    dispatch("/tickets/{ticket_id}", update_ticket(ticket_id, b))

DELETE_ticket(ticket_id) ==
    dispatch("/tickets/{ticket_id}", delete_ticket(ticket_id))

GET_health == dispatch("/health", health_check)

GET_docs(path) == dispatch(path, docs(path))

\* the response leaves the middleware
return_response ==
    /\ send_response
    /\ sim' = NoDispatch
    /\ UNCHANGED api_settings

\* requests on one ticket through the middleware
NextMiddleware ==
    \/ \E b \in CreateBodies : POST_tickets(b, 1)
    \/ \E status \in StatusFilters : GET_tickets(status)
    \/ GET_ticket(TicketId(1))
    \/ \E b \in LifecycleBodies : PUT_ticket(TicketId(1), b)
    \/ DELETE_ticket(TicketId(1))
    \/ GET_health
    \/ \E path \in ExemptPaths \ {"/health"} : GET_docs(path)
    \/ return_response

-----------------------------------------------------------------------------
(* Tool adapter: TicketingTools of agent/tools.py *)

\* the five ticket operations and the `operation` text each passes to
\* _handle_response
ToolOperations ==
    [create_ticket    |-> "ticket creation",
     get_tickets      |-> "ticket retrieval",
     get_ticket_by_id |-> "ticket {ticket_id} retrieval",
     update_ticket    |-> "ticket {ticket_id} update",
     delete_ticket    |-> "ticket {ticket_id} deletion"]

\* an argument that .upper() is called on: a str, given by its characters,
\* or a value of another type
Str(chars) == [type |-> "str", value |-> chars]

\* the `status` / `status_filter` argument: not given, a string in any
\* case, the empty string, or a value that is no string
StatusArguments ==
    {None, Some(Str(<<"o", "p", "e", "n">>)),
     Some(Str(<<"C", "l", "o", "s", "e", "d">>)),
     Some(Str(<<"R", "E", "S", "O", "L", "V", "E", "D">>)),
     Some(Str(<<>>)),
     Some([type |-> "int", value |-> <<"4", "2">>])}

\* str.upper() on ASCII text
LowerCase == <<"a", "b", "c", "d", "e", "f", "g", "h", "i", "j", "k", "l", "m",
               "n", "o", "p", "q", "r", "s", "t", "u", "v", "w", "x", "y", "z">>

UpperCase == <<"A", "B", "C", "D", "E", "F", "G", "H", "I", "J", "K", "L", "M",
               "N", "O", "P", "Q", "R", "S", "T", "U", "V", "W", "X", "Y", "Z">>

UpperChar(c) ==
    IF \E i \in 1..26 : LowerCase[i] = c
      THEN UpperCase[CHOOSE i \in 1..26 : LowerCase[i] = c]
      ELSE c

Upper_Identity(s) == s

Upper(s) == [i \in 1..Len(s) |-> UpperChar(s[i])]

\* `if x is not None`
Given(v) == v # None

\* `if status_filter:` on an argument that .upper() is called on
TruthyArgument(v) == v # None /\ v[1].value # <<>>

\* the parameters of update_ticket after ticket_id, and those sent
\* upper-cased
UpdateParameters ==
    {"title", "description", "status", "resolution", "comments", "category",
     "priority", "tags"}

UpperCased == {"status", "category", "priority"}

\* a value for each parameter of update_ticket but status
UpdateValues ==
    [title |-> Some("T2"), description |-> Some("D2"), resolution |-> Some(""),
     comments |-> Some(<<>>), category |-> Some(Str(<<"b", "u", "g">>)),
     priority |-> Some(Str(<<"H", "i">>)), tags |-> Some(<<"t1">>)]

\* the arguments of update_ticket: any status alone, and any status but a
\* non-string with one or all of the other parameters given
UpdateArguments ==
    {[f \in UpdateParameters |->
         IF f = "status" THEN call[1]
         ELSE IF f \in call[2] THEN UpdateValues[f] ELSE None] :
       call \in (StatusArguments \X {{}})
                \cup ({None} \X {{f} : f \in DOMAIN UpdateValues})
                \cup ({None, Some(Str(<<"o", "p", "e", "n">>))}
                         \X {DOMAIN UpdateValues})}

\* the arguments of get_tickets: any status_filter alone, and the other
\* filters with no status_filter or a lower-case one
GetTicketsArguments ==
    [status_filter   : StatusArguments,
     category_filter : {None},
     priority_filter : {None}]
    \cup [status_filter   : {None, Some(Str(<<"o", "p", "e", "n">>))},
          category_filter : {None, Some(Str(<<"b", "u", "g">>))},
          priority_filter : {None, Some(Str(<<>>))}]

CreateArguments ==
    [title : {"T1"}, description : {"D1"},
     comments : {None, Some(<<>>), Some(<<"c1">>)}]

\* a call of a tool operation with its arguments
ToolCalls ==
    [op : {"create_ticket"}, args : CreateArguments]
    \cup [op : {"get_tickets"}, args : GetTicketsArguments]
    \cup [op : {"get_ticket_by_id", "delete_ticket"},
          args : [ticket_id : {"ticket-001"}]]
    \cup [op : {"update_ticket"}, args : UpdateArguments]

\* lines 213-217: the payload of create_ticket, with `comments or []`
CreatePayload(args) ==
    [title |-> args.title, description |-> args.description,
     comments |-> IF args.comments = None THEN <<>> ELSE args.comments[1]]

\* lines 453-462: the query of get_tickets
GetTicketsParams(args) ==
    LET name == [status_filter |-> "status", category_filter |-> "category",
                 priority_filter |-> "priority"]
        kept == {f \in DOMAIN args : TruthyArgument(args[f])}
    IN  [k \in {name[f] : f \in kept} |->
            Upper(args[CHOOSE f \in kept : name[f] = k][1].value)]

\* lines 554-570: the payload of update_ticket
UpdatePayload_WithNulls(args) ==
    [f \in UpdateParameters |->
        IF ~ Given(args[f]) THEN None
        ELSE IF f \in UpperCased THEN Upper(args[f][1].value) ELSE args[f][1]]

UpdatePayload(args) ==
    [f \in {g \in UpdateParameters : Given(args[g])} |->
        IF f \in UpperCased THEN Upper(args[f][1].value) ELSE args[f][1]]

\* the request an operation hands to api_client
Request(call) ==
    CASE call.op = "create_ticket" ->
           [method |-> "POST", endpoint |-> "/tickets",
            json |-> Some(CreatePayload(call.args)), params |-> None]
      [] call.op = "get_tickets" ->
           [method |-> "GET", endpoint |-> "/tickets",
            json |-> None, params |-> Some(GetTicketsParams(call.args))]
      [] call.op = "get_ticket_by_id" ->
           [method |-> "GET", endpoint |-> "/tickets/{ticket_id}",
            json |-> None, params |-> None]
      [] call.op = "update_ticket" ->
           [method |-> "PUT", endpoint |-> "/tickets/{ticket_id}",
            json |-> Some(UpdatePayload(call.args)), params |-> None]
      [] call.op = "delete_ticket" ->
           [method |-> "DELETE", endpoint |-> "/tickets/{ticket_id}",
            json |-> None, params |-> None]

\* a call and the request made for it, None if it made none
Calling(call, request) ==
    [op |-> call.op, args |-> call.args, request |-> request]

\* what response.json() finds in the body: no JSON, null, an array, or an
\* object with the keys named
ResponseBodies ==
    [type : {"invalid", "null", "array"}, keys : {{}}]
    \cup [type : {"object"}, keys : {{}, {"id"}, {"detail"}}]

\* the two ways a block of statements ends
Return(value) == [ends |-> "return", value |-> value]
Raise(exc)    == [ends |-> "raise", value |-> exc]

\* an f-string message: its fixed text and the value formatted into it
Message(text, arg) == [text |-> text, arg |-> arg]

\* the try block of _handle_response, had the success range ended below 299
HandleResponseTry_Below299(status_code, body, operation) ==
    IF status_code >= 500
      THEN Return([success     |-> FALSE,
                   message     |-> Message("Server error during " \o operation,
                                           ToString(status_code)),
                   status_code |-> status_code,
                   retryable   |-> TRUE])
    ELSE IF 200 <= status_code /\ status_code < 299
      THEN IF body.type = "invalid"
             THEN Raise("JSONDecodeError")
             ELSE Return([success     |-> TRUE,
                          data        |-> body,
                          status_code |-> status_code])
    ELSE Return([success     |-> FALSE,
                 message     |-> IF body.type = "object" /\ "detail" \in body.keys
                                   THEN Message("detail", "of the body")
                                   ELSE Message("HTTP", ToString(status_code)),
                 status_code |-> status_code,
                 retryable   |-> FALSE])

\* the try block of _handle_response, lines 162-190
HandleResponseTry(status_code, body, operation) ==
    IF status_code >= 500
      THEN Return([success     |-> FALSE,
                   message     |-> Message("Server error during " \o operation,
                                           ToString(status_code)),
                   status_code |-> status_code,
                   retryable   |-> TRUE])
    ELSE IF 200 <= status_code /\ status_code < 300
      THEN IF body.type = "invalid"
             THEN Raise("JSONDecodeError")
             ELSE Return([success     |-> TRUE,
                          data        |-> body,
                          status_code |-> status_code])
    ELSE Return([success     |-> FALSE,
                 message     |-> IF body.type = "object" /\ "detail" \in body.keys
                                   THEN Message("detail", "of the body")
                                   ELSE Message("HTTP", ToString(status_code)),
                 status_code |-> status_code,
                 retryable   |-> FALSE])

\* TicketingTools._handle_response: the try block and its except branch
handle_response(status_code, body, operation) ==
    LET tried == HandleResponseTry(status_code, body, operation)
    IN  IF tried.ends = "raise"
          THEN [success   |-> FALSE,
                message   |-> Message("Error processing response", tried.value),
                retryable |-> FALSE]
          ELSE tried.value

\* result.get("status_code")
GetStatusCode(r) ==
    IF "status_code" \in DOMAIN r THEN Some(r.status_code) ELSE None

\* the branch `if result["success"]` of each operation
OnSuccess(op, data) ==
    CASE op = "create_ticket" ->
           IF data.type = "object" /\ "id" \in data.keys
             THEN Return([success |-> TRUE,
                          message |-> Message("Successfully created ticket",
                                              "ticket['id']"),
                          ticket  |-> data])
             ELSE Raise(IF data.type = "object" THEN "KeyError" ELSE "TypeError")
      [] op = "get_tickets" ->
           IF data.type = "null"
             THEN Raise("TypeError")
             ELSE Return([success |-> TRUE,
                          message |-> Message("Found tickets", "len(tickets)"),
                          tickets |-> data])
      [] op = "get_ticket_by_id" ->
           Return([success |-> TRUE,
                   message |-> Message("Retrieved ticket", "ticket_id"),
                   ticket  |-> data])
      [] op = "update_ticket" ->
           Return([success |-> TRUE,
                   message |-> Message("Successfully updated ticket", "ticket_id"),
                   ticket  |-> data])
      [] op = "delete_ticket" ->
           Return([success |-> TRUE,
                   message |-> Message("Successfully deleted ticket", "ticket_id")])

\* the else branch: success, message and status_code, nothing else
OnFailure(op, r) ==
    Return([success     |-> FALSE,
            message     |-> IF op \in {"create_ticket", "get_tickets"}
                              THEN Message("Failed: " \o r.message.text,
                                           r.message.arg)
                              ELSE r.message,
            status_code |-> GetStatusCode(r)])

\* the statements of an operation after api_client returned or raised
AfterCall(op, called, body) ==
    IF called.kind # "response"
      THEN Raise(called.kind)
      ELSE LET r == handle_response(called.status_code, body, ToolOperations[op])
           IN  IF r.success THEN OnSuccess(op, r.data) ELSE OnFailure(op, r)

\* except Exception as e: of every operation
ExceptException_Reraise(op, block) ==
    IF block.ends = "raise" THEN [escaped |-> block.value] ELSE block.value

ExceptException(op, block) ==
    IF block.ends = "raise"
      THEN [success |-> FALSE, message |-> Message("Error in " \o op, block.value)]
      ELSE block.value

\* .upper() is called on an argument that is no str
UpperRaises(call) ==
    CASE call.op = "update_ticket" ->
           \E f \in UpperCased :
               Given(call.args[f]) /\ call.args[f][1].type # "str"
      [] call.op = "get_tickets" ->
           \E f \in DOMAIN call.args :
               TruthyArgument(call.args[f]) /\ call.args[f][1].type # "str"
      [] OTHER -> FALSE

\* what an operation returned: the call, the outcome of api_client and the
\* body it was made from (None if it made no request) and the envelope
Envelope(call, called, body, value) ==
    [call |-> call, called |-> called, body |-> body, value |-> value]

InitTools ==
    /\ tool = None
    /\ envelope = None

ToolFrame == UNCHANGED <<serviceVars, middlewareVars, threadVars>>

\* an operation builds its request and calls api_client.get / post / put /
\* delete
tool_call(call) ==
    /\ tool = None
    /\ ~ UpperRaises(call)
    /\ EnterRetryLoop
    /\ tool' = Some(Calling(call, Some(Request(call))))
    /\ envelope' = None

\* an operation fails before it has made its request
tool_raise(call) ==
    /\ tool = None
    /\ pc \in {"idle", "returned", "raised"}
    /\ UpperRaises(call)
    /\ envelope' = Some(Envelope(Calling(call, None), None, None,
                       ExceptException(call.op, Raise("AttributeError"))))
    /\ UNCHANGED <<tool, clientVars>>
    /\ ToolFrame

\* session.request raises an exception that is no RequestException: it
\* leaves the retry loop and _make_request_with_retry as it is
AttemptError(e) ==
    /\ pc = "attempt"
    /\ tool # None
    /\ outcomes' = Append(outcomes, [kind |-> e, exc |-> e])
    /\ pc' = "raised"
    /\ result' = Some([kind |-> e, attempts |-> attempt + 1, cause |-> None])
    /\ UNCHANGED <<retry_config, attempt, last_exception, sleeps, calls,
                   session,
                   toolVars>>
    /\ ToolFrame

\* the operation reads the outcome of its call and returns its envelope
tool_return(body) ==
    /\ tool # None
    /\ pc \in {"returned", "raised"}
    /\ envelope' = Some(Envelope(tool[1], result, Some(body),
                       ExceptException(tool[1].op,
                           AfterCall(tool[1].op, result[1], body))))
    /\ tool' = None
    /\ UNCHANGED clientVars
    /\ ToolFrame

NextTools ==
    \/ \E call \in ToolCalls : tool_call(call)
    \/ \E call \in ToolCalls : tool_raise(call)
    \/ \E code \in StatusCodes : AttemptResponse(code)
    \/ \E e \in RequestExceptions : AttemptException(e)
    \/ \E e \in {"TypeError"} : AttemptError(e)
    \/ RaiseAfterLoop
    \/ \E body \in ResponseBodies : tool_return(body)

-----------------------------------------------------------------------------
(* Concurrent callers of the TicketDatabase: api/database.py, and the      *)
(* update and delete handlers of api/routes.py statement by statement, as  *)
(* they run when called from several threads.  Every store method is       *)
(* `with self._lock:` around its body: a caller first acquires the lock,   *)
(* then runs the body and releases the lock on return.  The callers run    *)
(* within one reading of the clock.                                        *)

Threads == 1..NumThreads

\* id=f"thread-{thread_id}-ticket-{i}"
ThreadTicketId(thread_id, i) == <<"thread-", thread_id, "-ticket-", i>>

\* the store methods a caller can be in, waiting for the lock or holding it
StoreMethods ==
    {"create_ticket", "get_ticket_by_id", "update_ticket", "ticket_exists",
     "delete_ticket"}

\* a caller that is in no operation
IdleThread ==
    [op |-> "none", pc |-> "idle", ticket_id |-> None, body |-> None,
     ticket |-> None, attached |-> FALSE, inserted |-> <<>>, response |-> None]

InitThreads ==
    /\ lock = None
    /\ threads = [t \in Threads |-> IdleThread]

\* what the service variables do in a step of a concurrent caller
ThreadFrame == UNCHANGED <<last, deleted, clientVars, toolVars, middlewareVars>>

\* a caller builds a Ticket and calls ticket_db.create_ticket(ticket)
call_create_ticket(t, id, title) ==
    /\ threads[t].pc = "idle"
    /\ Len(threads[t].inserted) < PerThread
    /\ threads' = [threads EXCEPT ![t] =
           [@ EXCEPT !.op = "create_ticket", !.pc = "create_ticket",
                     !.ticket_id = Some(id), !.body = None, !.response = None,
                     !.attached = FALSE,
                     !.ticket = Some([id          |-> id,
                                      title       |-> Some(title),
                                      description |-> Some("D1"),
                                      comments    |-> Some(<<>>),
                                      created     |-> clock,
                                      updated     |-> None,
                                      status      |-> Some("OPEN"),
                                      resolution  |-> None])]]
    /\ UNCHANGED <<tickets, clock, lock>>
    /\ ThreadFrame

\* with self._lock: entered by a caller that is at a store method
acquire(t) ==
    /\ threads[t].pc \in StoreMethods
    /\ lock = None
    /\ lock' = Some(t)
    /\ UNCHANGED <<tickets, clock, threads>>
    /\ ThreadFrame

\* the callers other than t after the object stored under id was replaced
\* by another object: who held the stored object keeps it as its own
Replaced(t, id) ==
    [u \in Threads |->
        IF u # t /\ threads[u].attached /\ threads[u].ticket_id = Some(id)
          THEN [threads[u] EXCEPT !.attached = FALSE,
                                  !.ticket = Some(tickets[id])]
          ELSE threads[u]]

\* TicketDatabase.create_ticket: the body and the return
TicketDatabase_create_ticket(t) ==
    /\ threads[t].pc = "create_ticket"
    /\ lock = Some(t)
    /\ tickets' = db_create_ticket(tickets, threads[t].ticket[1])
    /\ lock' = None
    /\ threads' = [Replaced(t, threads[t].ticket_id[1]) EXCEPT ![t] =
           [@ EXCEPT !.pc = "idle",
                     !.inserted = Append(@, threads[t].ticket[1])]]
    /\ UNCHANGED clock
    /\ ThreadFrame

\* a PUT /tickets/{ticket_id} whose body passed the TicketUpdate model
\* enters the handler: line 87 calls get_ticket_by_id
enter_update_ticket(t, ticket_id, b) ==
    /\ threads[t].pc = "idle"
    /\ UpdateBodyErrors(b) = {}
    /\ threads' = [threads EXCEPT ![t] =
           [@ EXCEPT !.op = "update_ticket", !.pc = "get_ticket_by_id",
                     !.ticket_id = Some(ticket_id), !.body = Some(b),
                     !.ticket = None, !.attached = FALSE, !.response = None]]
    /\ UNCHANGED <<tickets, clock, lock>>
    /\ ThreadFrame

\* TicketDatabase.get_ticket_by_id returns self._tickets.get(ticket_id):
\* the stored object, not a copy; lines 88-89 answer 404 when it is None
TicketDatabase_get_ticket_by_id(t) ==
    /\ threads[t].pc = "get_ticket_by_id"
    /\ lock = Some(t)
    /\ lock' = None
    /\ LET id       == threads[t].ticket_id[1]
           existing == db_get_ticket_by_id(tickets, id)
       IN  threads' = [threads EXCEPT ![t] =
               IF existing = None
                 THEN [@ EXCEPT !.pc = "idle", !.attached = FALSE,
                                !.response = Some([status_code |-> 404,
                                    detail |-> "TicketNotFoundError"])]
                 ELSE [@ EXCEPT !.pc = "check", !.ticket = existing,
                                !.attached = TRUE]]
    /\ UNCHANGED <<tickets, clock>>
    /\ ThreadFrame

\* the object a caller holds: the stored record while it is still the one
\* in the store, the caller's own otherwise
Held(t) ==
    IF threads[t].attached THEN tickets[threads[t].ticket_id[1]]
                           ELSE threads[t].ticket[1]

\* lines 92-105: the resolution rule, read from the held object
update_ticket_check(t) ==
    /\ threads[t].pc = "check"
    /\ threads' = [threads EXCEPT ![t] =
           IF Truthy(Attr(threads[t].body[1], "status"))
              /\ ResolutionMissing(threads[t].body[1], Held(t))
             THEN [@ EXCEPT !.pc = "idle", !.attached = FALSE,
                            !.response = Some([status_code |-> 422,
                                detail |-> "ValidationError"])]
             ELSE [@ EXCEPT !.pc = "setattr"]]
    /\ UNCHANGED <<tickets, clock, lock>>
    /\ ThreadFrame

\* lines 108-112: the setattr loop and existing_ticket.updated = now, on
\* the held object, with no lock taken
update_ticket_setattr(t) ==
    /\ threads[t].pc = "setattr"
    /\ LET patched == [ApplyUpdates(Held(t), threads[t].body[1])
                          EXCEPT !.updated = Some(clock)]
       IN  IF threads[t].attached
             THEN /\ tickets' = [tickets EXCEPT
                                    ![threads[t].ticket_id[1]] = patched]
                  /\ threads' = [threads EXCEPT ![t].pc = "update_ticket"]
             ELSE /\ threads' = [threads EXCEPT ![t].pc = "update_ticket",
                                                ![t].ticket = Some(patched)]
                  /\ UNCHANGED tickets
    /\ UNCHANGED <<clock, lock>>
    /\ ThreadFrame

\* TicketDatabase.update_ticket and line 115: the held object is stamped
\* and stored under ticket_id if the id is in the store; None otherwise,
\* which is no Ticket for the response_model
TicketDatabase_update_ticket(t) ==
    /\ threads[t].pc = "update_ticket"
    /\ lock = Some(t)
    /\ lock' = None
    /\ LET id == threads[t].ticket_id[1]
       IN  /\ tickets' = db_update_ticket(tickets, id, Held(t), clock)
           /\ IF db_ticket_exists(tickets, id)
                THEN threads' = [(IF threads[t].attached
                                    THEN threads ELSE Replaced(t, id))
                                 EXCEPT ![t] =
                         [@ EXCEPT !.pc = "idle", !.attached = FALSE,
                                   !.response = Some([status_code |-> 200,
                                       detail |-> "Ticket"])]]
                ELSE threads' = [threads EXCEPT ![t] =
                         [@ EXCEPT !.pc = "idle", !.attached = FALSE,
                                   !.response = Some([status_code |-> 500,
                                       detail |-> "ResponseValidationError"])]]
    /\ UNCHANGED clock
    /\ ThreadFrame

\* a DELETE /tickets/{ticket_id} enters the handler: line 125 calls
\* ticket_exists
enter_delete_ticket(t, ticket_id) ==
    /\ threads[t].pc = "idle"
    /\ threads' = [threads EXCEPT ![t] =
           [@ EXCEPT !.op = "delete_ticket", !.pc = "ticket_exists",
                     !.ticket_id = Some(ticket_id), !.body = None,
                     !.ticket = None, !.attached = FALSE, !.response = None]]
    /\ UNCHANGED <<tickets, clock, lock>>
    /\ ThreadFrame

\* TicketDatabase.ticket_exists; lines 125-126 answer 404 when it is false
TicketDatabase_ticket_exists(t) ==
    /\ threads[t].pc = "ticket_exists"
    /\ lock = Some(t)
    /\ lock' = None
    /\ threads' = [threads EXCEPT ![t] =
           IF db_ticket_exists(tickets, threads[t].ticket_id[1])
             THEN [@ EXCEPT !.pc = "delete_ticket"]
             ELSE [@ EXCEPT !.pc = "idle",
                            !.response = Some([status_code |-> 404,
                                detail |-> "TicketNotFoundError"])]]
    /\ UNCHANGED <<tickets, clock>>
    /\ ThreadFrame

\* TicketDatabase.delete_ticket and lines 129-132: True and the
\* confirmation when the id was in the store, False and 500 otherwise.  Who
\* holds the removed object keeps it as its own.
TicketDatabase_delete_ticket(t) ==
    /\ threads[t].pc = "delete_ticket"
    /\ lock = Some(t)
    /\ lock' = None
    /\ LET id == threads[t].ticket_id[1]
       IN  /\ tickets' = IF db_ticket_exists(tickets, id)
                           THEN db_delete_ticket(tickets, id) ELSE tickets
           /\ IF db_ticket_exists(tickets, id)
                THEN threads' = [Replaced(t, id) EXCEPT ![t] =
                         [@ EXCEPT !.pc = "idle",
                                   !.response = Some([status_code |-> 200,
                                       detail |-> "SuccessResponse"])]]
                ELSE threads' = [threads EXCEPT ![t] =
                         [@ EXCEPT !.pc = "idle",
                                   !.response = Some([status_code |-> 500,
                                       detail |-> "Failed to delete ticket"])]]
    /\ UNCHANGED clock
    /\ ThreadFrame

\* callers creating tickets with pairwise distinct ids
NextStore ==
    \/ \E t \in Threads, title \in {"T1", "T2"} :
           call_create_ticket(t,
               ThreadTicketId(t, Len(threads[t].inserted) + 1), title)
    \/ \E t \in Threads : acquire(t)
    \/ \E t \in Threads : TicketDatabase_create_ticket(t)

\* the bodies concurrent callers send
ThreadBodies ==
    {b \in LifecycleBodies :
        \/ b.status = Some("RESOLVED") /\ b.resolution = Some("R1")
        \/ b.status = Some("OPEN") /\ b.resolution = Unset}

\* two requests in flight
RequestThreads == {1, 2}

\* callers creating, updating and deleting one ticket
NextHandlers ==
    \/ \E t \in RequestThreads : call_create_ticket(t, TicketId(1), "T1")
    \/ \E t \in RequestThreads : acquire(t)
    \/ \E t \in RequestThreads : TicketDatabase_create_ticket(t)
    \/ \E t \in RequestThreads, b \in ThreadBodies :
           enter_update_ticket(t, TicketId(1), b)
    \/ \E t \in RequestThreads : TicketDatabase_get_ticket_by_id(t)
    \/ \E t \in RequestThreads : update_ticket_check(t)
    \/ \E t \in RequestThreads : update_ticket_setattr(t)
    \/ \E t \in RequestThreads : TicketDatabase_update_ticket(t)
    \/ \E t \in RequestThreads : enter_delete_ticket(t, TicketId(1))
    \/ \E t \in RequestThreads : TicketDatabase_ticket_exists(t)
    \/ \E t \in RequestThreads : TicketDatabase_delete_ticket(t)

-----------------------------------------------------------------------------
(* Specifications *)

\* the client and the service as constructed: RetryConfig chosen, no call
\* made; ticket_db = TicketDatabase(), no request handled
Init ==
    /\ InitClient
    /\ InitService
    /\ InitTools
    /\ InitMiddleware
    /\ InitThreads

\* the same with the RetryConfig of the dataclass defaults
InitDefault ==
    /\ Init
    /\ retry_config = [max_retries |-> 3, base_delay |-> 1, backoff_factor |-> 2]

SpecClient == Init /\ [][NextClient]_vars

\* the client constructed with any RetryConfig, max_retries below 1 included
InitUnchecked ==
    /\ retry_config \in UncheckedRetryConfigs
    /\ pc = "idle"
    /\ attempt = 0
    /\ last_exception = None
    /\ outcomes = <<>>
    /\ sleeps = <<>>
    /\ result = None
    /\ calls = [c \in Callers |-> NoCall]
    /\ session = NoSession
    /\ InitService
    /\ InitTools
    /\ InitMiddleware
    /\ InitThreads

SpecUnchecked == InitUnchecked /\ [][NextClient]_vars

\* a call in progress keeps running and every session.request it makes
\* comes back with a response or an exception
ClientStep ==
    \/ \E code \in StatusCodes : AttemptResponse(code)
    \/ \E e \in RequestExceptions : AttemptException(e)
    \/ RaiseAfterLoop

SpecClientFair == SpecClient /\ WF_vars(ClientStep)

SpecService == InitDefault /\ [][NextService]_vars

SpecUpdate == InitDefault /\ [][NextUpdate]_vars

\* the same with the APISettings the environment file may give
InitSimulated ==
    /\ InitClient
    /\ retry_config = [max_retries |-> 3, base_delay |-> 1, backoff_factor |-> 2]
    /\ InitService
    /\ InitTools
    /\ InitThreads
    /\ api_settings \in ApiSettings
    /\ sim = NoDispatch

SpecMiddleware == InitSimulated /\ [][NextMiddleware]_vars

SpecTools == InitDefault /\ [][NextTools]_vars

SpecStore == InitDefault /\ [][NextStore]_vars

SpecHandlers == InitDefault /\ [][NextHandlers]_vars

SpecCalls == InitDefault /\ [][NextCalls]_vars

\* the application after startup
InitSeeded ==
    /\ InitClient
    /\ retry_config = [max_retries |-> 3, base_delay |-> 1, backoff_factor |-> 2]
    /\ InitSeededService
    /\ InitTools
    /\ InitMiddleware
    /\ InitThreads

SpecSeeded == InitSeeded /\ [][NextSeeded]_vars

-----------------------------------------------------------------------------
(* Properties of the API client *)

CallDone == pc \in {"returned", "raised"}

Retryable(o) == o.kind = "exception" \/ o.status_code >= 500

IsResponse(r) == r # None /\ r[1].kind = "response"

IsClientError(r) == r # None /\ r[1].kind = "APIClientError"

\* C1: with max_retries >= 1 a call makes at least one and at most
\* max_retries requests, and a call in progress ends by returning a response
\* or raising APIClientError.
C1_CallTerminates ==
    /\ [](retry_config.max_retries >= 1 =>
            /\ Len(outcomes) <= retry_config.max_retries
            /\ pc \in {"after", "returned", "raised"} => Len(outcomes) >= 1
            /\ pc = "returned" => IsResponse(result)
            /\ pc = "raised" => IsClientError(result))
    /\ (retry_config.max_retries >= 1 /\ pc \in {"attempt", "after"}) ~> CallDone

C1_Witness ==
    /\ retry_config.max_retries >= 2
    /\ pc = "raised"
    /\ Len(outcomes) = retry_config.max_retries

\* C2: when all max_retries attempts were retryable, the final attempt alone
\* decides: a final 5xx is returned, a final exception is raised as
\* APIClientError carrying that exception.
C2_FinalAttemptDecides ==
    (/\ CallDone
     /\ retry_config.max_retries >= 1
     /\ Len(outcomes) = retry_config.max_retries
     /\ \A i \in 1..Len(outcomes) : Retryable(outcomes[i]))
    => LET final == outcomes[Len(outcomes)]
       IN  IF final.kind = "response"
             THEN pc = "returned" /\ result = Some(final)
             ELSE /\ pc = "raised"
                  /\ IsClientError(result)
                  /\ result[1].cause = Some(final.exc)

C2_Witness ==
    /\ pc = "returned"
    /\ retry_config.max_retries >= 2
    /\ Len(outcomes) = retry_config.max_retries
    /\ outcomes[1].kind = "exception"
    /\ outcomes[Len(outcomes)] = [kind |-> "response", status_code |-> 503]

\* C3: a 4xx response is never retried: it is the last request of its call,
\* it is what the call returns, and no sleep follows it.
C3_No4xxRetry ==
    \A i \in 1..Len(outcomes) :
        (outcomes[i].kind = "response"
         /\ outcomes[i].status_code \in 400..499)
        => /\ i = Len(outcomes)
           /\ pc = "returned"
           /\ result = Some(outcomes[i])
           /\ Len(sleeps) = i - 1

C3_Witness ==
    /\ Len(outcomes) = 2
    /\ outcomes[2] = [kind |-> "response", status_code |-> 404]
    /\ retry_config.max_retries = 3
    /\ pc = "returned"

\* C4: a call that met a non-retryable response returns the first such
\* response; it returns a 5xx or raises only when all max_retries attempts
\* were retryable.
C4_TransientInvisible ==
    CallDone =>
        /\ (\E i \in 1..Len(outcomes) : ~ Retryable(outcomes[i])) =>
               /\ pc = "returned"
               /\ result = Some(outcomes[Len(outcomes)])
               /\ \A j \in 1..(Len(outcomes) - 1) : Retryable(outcomes[j])
               /\ Len(sleeps) = Len(outcomes) - 1
        /\ (pc = "raised" \/ result[1].status_code >= 500) =>
               /\ Len(outcomes) = retry_config.max_retries
               /\ \A i \in 1..Len(outcomes) : Retryable(outcomes[i])

C4_Witness ==
    /\ retry_config.max_retries = 2
    /\ outcomes = <<[kind |-> "response", status_code |-> 500],
                    [kind |-> "response", status_code |-> 200]>>
    /\ pc = "returned"
    /\ result = Some([kind |-> "response", status_code |-> 200])
    /\ Len(sleeps) = 1

\* C5: the k-th sleep of a call (k from 0) lasts base_delay * backoff_factor^k;
\* a sleep follows every retryable attempt but the final one, so a finished
\* call of n attempts has slept n-1 times.
C5_BackoffSchedule ==
    /\ \A k \in 1..Len(sleeps) :
           sleeps[k] = retry_config.base_delay
                         * Pow(retry_config.backoff_factor, k - 1)
    /\ pc = "attempt" => Len(sleeps) = Len(outcomes)
    /\ (pc \in {"after", "returned", "raised"} /\ Len(outcomes) >= 1) =>
           Len(sleeps) = Len(outcomes) - 1

C5_Witness ==
    /\ retry_config = [max_retries |-> 3, base_delay |-> 1, backoff_factor |-> 2]
    /\ sleeps = <<1, 2>>
    /\ pc = "after"
    /\ outcomes[2].kind = "exception"

-----------------------------------------------------------------------------
(* Properties of the ticket service *)

\* the step handles a request `op` and leaves its response in last'
Handles(op) == last = NoRequest /\ last'.op = op

\* C6: a successful create returns an id that names no stored ticket, and
\* adds exactly one ticket to the store.
C6_CreateIdFresh ==
    [][(Handles("create_ticket") /\ last'.status_code = 201) =>
          /\ last'.content[1].id \notin DOMAIN tickets
          /\ Cardinality(DOMAIN tickets') = Cardinality(DOMAIN tickets) + 1]_vars

\* C7: a successful PUT gives every field of the body its value and leaves
\* every other field but `updated`, and every other ticket, as it was.
C7_UpdateFrame ==
    [][(Handles("update_ticket") /\ last'.status_code = 200) =>
          LET id == last'.ticket_id[1]
              b  == last'.body[1]
          IN  /\ DOMAIN tickets' = DOMAIN tickets
              /\ \A k \in DOMAIN tickets \ {id} : tickets'[k] = tickets[k]
              /\ \A f \in UpdateFields :
                     tickets'[id][f] = IF b[f] # Unset THEN b[f]
                                                       ELSE tickets[id][f]
              /\ tickets'[id].id = tickets[id].id
              /\ tickets'[id].created = tickets[id].created
              /\ tickets'[id].updated # None]_vars

C7_Witness ==
    /\ last.op = "update_ticket"
    /\ last.status_code = 200
    /\ last.body[1] = [title |-> Some("T2"), description |-> Some("D2"),
                       status |-> Unset, resolution |-> Unset,
                       comments |-> Unset]
    /\ tickets[last.ticket_id[1]].title = Some("T2")
    /\ tickets[last.ticket_id[1]].comments = Some(<<"c1">>)
    /\ tickets[last.ticket_id[1]].status = Some("OPEN")

\* C8 as claimed: on an existing ticket a PUT with status RESOLVED is
\* answered 422 and changes nothing when neither the body nor the record has
\* a non-empty resolution, and is answered 200, with RESOLVED and the body's
\* resolution stored, when the body has a non-empty resolution.
C8_ResolvedNeedsResolution ==
    [][(/\ Handles("update_ticket")
        /\ last'.ticket_id[1] \in DOMAIN tickets
        /\ last'.body[1].status = Some("RESOLVED")) =>
          LET id       == last'.ticket_id[1]
              given    == last'.body[1].resolution
              inBody   == given \notin {Unset, None, Some("")}
              onRecord == tickets[id].resolution \notin {None, Some("")}
          IN  /\ (~ inBody /\ ~ onRecord) =>
                     last'.status_code = 422 /\ tickets' = tickets
              /\ inBody =>
                     /\ last'.status_code = 200
                     /\ tickets'[id].status = Some("RESOLVED")
                     /\ tickets'[id].resolution = given]_vars

\* the lengths of title, description and resolution in a body are within
\* the limits of TicketUpdate
LengthsWithinLimits(b) ==
    /\ b.title \notin {Unset, None} => Len(b.title[1]) \in 1..200
    /\ b.description \notin {Unset, None} => Len(b.description[1]) \in 1..1000
    /\ b.resolution \notin {Unset, None} => Len(b.resolution[1]) \in 0..500

\* C8 amended: the PUT with a non-empty resolution is answered 200 when the
\* other fields of its body are within the length limits of TicketUpdate.
C8_ResolvedNeedsResolutionIfValid ==
    [][(/\ Handles("update_ticket")
        /\ last'.ticket_id[1] \in DOMAIN tickets
        /\ last'.body[1].status = Some("RESOLVED")) =>
          LET id       == last'.ticket_id[1]
              given    == last'.body[1].resolution
              inBody   == given \notin {Unset, None, Some("")}
              onRecord == tickets[id].resolution \notin {None, Some("")}
          IN  /\ (~ inBody /\ ~ onRecord) =>
                     last'.status_code = 422 /\ tickets' = tickets
              /\ (inBody /\ LengthsWithinLimits(last'.body[1])) =>
                     /\ last'.status_code = 200
                     /\ tickets'[id].status = Some("RESOLVED")
                     /\ tickets'[id].resolution = given
              /\ (inBody /\ ~ LengthsWithinLimits(last'.body[1])) =>
                     last'.status_code = 422 /\ tickets' = tickets]_vars

C8_Witness ==
    /\ last.op = "update_ticket"
    /\ last.status_code = 200
    /\ last.body[1].status = Some("RESOLVED")
    /\ last.body[1].resolution = Some("R1")
    /\ tickets[last.ticket_id[1]].status = Some("RESOLVED")
    /\ tickets[last.ticket_id[1]].resolution = Some("R1")

\* C9: a PUT whose status is none of OPEN, RESOLVED, CLOSED is answered 422
\* by InvalidStatusError, its detail giving the value and the three valid
\* statuses, and changes nothing.
C9_InvalidStatusNamed ==
    [][(/\ Handles("update_ticket")
        /\ last'.ticket_id[1] \in DOMAIN tickets
        /\ last'.body[1].status \notin {Unset, None}
        /\ last'.body[1].status[1] \notin {"OPEN", "RESOLVED", "CLOSED"}) =>
          /\ last'.status_code = 422
          /\ last'.detail[1].error = "InvalidStatusError"
          /\ last'.detail[1].status = last'.body[1].status[1]
          /\ last'.detail[1].valid_statuses = <<"OPEN", "RESOLVED", "CLOSED">>
          /\ tickets' = tickets]_vars

\* C10 as claimed: a deleted id is not in the store or in any list result,
\* and every GET, PUT and DELETE on it is answered 404, until a create
\* returns the id again.
C10_DeletedIdNotFound ==
    /\ [](\A id \in deleted :
             /\ id \notin DOMAIN tickets
             /\ (last.op = "get_tickets" /\ last.status_code = 200) =>
                    \A i \in 1..Len(last.content[1]) :
                        last.content[1][i].id # id)
    /\ [][(/\ last = NoRequest
           /\ last'.op \in {"get_ticket", "update_ticket", "delete_ticket"}
           /\ last'.ticket_id[1] \in deleted) =>
             last'.status_code = 404]_vars

\* C10 amended: as above, but a PUT whose body fails the TicketUpdate
\* validation is answered 422 before the handler looks the id up.
C10_DeletedIdNotFoundIfValid ==
    /\ [](\A id \in deleted :
             /\ id \notin DOMAIN tickets
             /\ (last.op = "get_tickets" /\ last.status_code = 200) =>
                    \A i \in 1..Len(last.content[1]) :
                        last.content[1][i].id # id)
    /\ [][(/\ last = NoRequest
           /\ last'.op \in {"get_ticket", "update_ticket", "delete_ticket"}
           /\ last'.ticket_id[1] \in deleted) =>
             IF last'.op = "update_ticket"
                  /\ UpdateBodyErrors(last'.body[1]) # {}
               THEN /\ last'.status_code = 422
                    /\ last'.detail[1].error = "RequestValidationError"
               ELSE /\ last'.status_code = 404
                    /\ last'.detail[1].error = "TicketNotFoundError"
                    /\ last'.detail[1].ticket_id = last'.ticket_id[1]]_vars

C10_Witness ==
    /\ last.op = "delete_ticket"
    /\ last.status_code = 404
    /\ last.ticket_id[1] \in deleted
    /\ tickets # <<>>

\* C17 as claimed: for every body, a PUT on an id that is not in the store
\* is answered 404 with a detail naming the id, and the store is unchanged.
C17_UpdateAbsentNotFound ==
    [][(Handles("update_ticket") /\ last'.ticket_id[1] \notin DOMAIN tickets) =>
          /\ last'.status_code = 404
          /\ last'.detail[1].error = "TicketNotFoundError"
          /\ last'.detail[1].ticket_id = last'.ticket_id[1]
          /\ tickets' = tickets]_vars

\* C17 amended: the PUT is answered 404 when its body passes the TicketUpdate
\* validation and 422 when it does not; the store is unchanged in both cases.
C17_UpdateAbsentNotFoundIfValid ==
    [][(Handles("update_ticket") /\ last'.ticket_id[1] \notin DOMAIN tickets) =>
          /\ IF UpdateBodyErrors(last'.body[1]) # {}
               THEN /\ last'.status_code = 422
                    /\ last'.detail[1].error = "RequestValidationError"
               ELSE /\ last'.status_code = 404
                    /\ last'.detail[1].error = "TicketNotFoundError"
                    /\ last'.detail[1].ticket_id = last'.ticket_id[1]
          /\ tickets' = tickets]_vars

C17_Witness ==
    /\ last.op = "update_ticket"
    /\ last.status_code = 404
    /\ last.ticket_id[1] \notin DOMAIN tickets
    /\ last.ticket_id[1] \notin deleted
    /\ last.body[1].status = Some("RESOLVED")
    /\ tickets # <<>>

\* the stored tickets a status filter keeps
Matching(status_filter) ==
    {tickets[k] : k \in {j \in DOMAIN tickets :
        status_filter = None \/ tickets[j].status = status_filter}}

\* C18: for every store state and filter, get_all_tickets gives the stored
\* tickets whose status is the filter (all of them without a filter), each
\* once, by `created` descending; the list handler answers with that
\* sequence and leaves the store as it was.
C18_ListFilteredSorted ==
    /\ [](\A f \in {None} \cup {Some(s) : s \in TicketStatus} :
             LET listed == db_get_all_tickets(tickets, f)
             IN  /\ {listed[i] : i \in 1..Len(listed)} = Matching(f)
                 /\ Len(listed) = Cardinality(Matching(f))
                 /\ \A i \in 1..(Len(listed) - 1) :
                        listed[i].created >= listed[i + 1].created)
    /\ []((last.op = "get_tickets" /\ last.status_code = 200) =>
             last.content[1] = db_get_all_tickets(tickets, last.body))
    /\ [][Handles("get_tickets") => tickets' = tickets]_vars

C18_Witness ==
    /\ last.op = "get_tickets"
    /\ last.status_code = 200
    /\ last.body = Some("OPEN")
    /\ Len(last.content[1]) = 1
    /\ Cardinality(DOMAIN tickets) = 2

\* the step is a successful create that returns id / a successful update of
\* the ticket id
CreatesNow(id) ==
    /\ Handles("create_ticket")
    /\ last'.status_code = 201
    /\ last'.content[1].id = id

UpdatesNow(id) ==
    /\ Handles("update_ticket")
    /\ last'.status_code = 200
    /\ last'.ticket_id[1] = id

\* C19: a stored ticket's `updated` is None exactly as long as no update of
\* it has succeeded since its creation: a create leaves it None, a successful
\* update sets it, and no other request changes it.
C19_UpdatedNoneUntilUpdate ==
    [][\A id \in DOMAIN tickets' :
          (tickets'[id].updated = None)
            <=> \/ CreatesNow(id)
                \/ /\ id \in DOMAIN tickets
                   /\ tickets[id].updated = None
                   /\ ~ UpdatesNow(id)]_vars

C19_Witness ==
    /\ last.op = "update_ticket"
    /\ last.status_code = 200
    /\ last.body[1].title = Some("T2")
    /\ tickets[last.ticket_id[1]].updated # None

\* C20: a ticket that is in the store before and after a request has the id
\* and the `created` timestamp it had before.
C20_IdCreatedImmutable ==
    [][\A id \in DOMAIN tickets \cap DOMAIN tickets' :
          /\ tickets'[id].id = tickets[id].id
          /\ tickets'[id].created = tickets[id].created]_vars

-----------------------------------------------------------------------------
(* Properties of the store under concurrent callers *)

\* the number of create_ticket calls that have returned
RECURSIVE Returned(_)
Returned(S) ==
    IF S = {} THEN 0
    ELSE LET t == CHOOSE x \in S : TRUE
         IN  Len(threads[t].inserted) + Returned(S \ {t})

\* C11: under every interleaving of callers that create tickets with pairwise
\* distinct ids, the store holds exactly one record for every create_ticket
\* that has returned, equal to the ticket the caller passed: no write is lost.
C11_NoLostWrite ==
    /\ \A t \in Threads : \A i \in 1..Len(threads[t].inserted) :
           LET ticket == threads[t].inserted[i]
           IN  /\ ticket.id \in DOMAIN tickets
               /\ tickets[ticket.id] = ticket
    /\ Cardinality(DOMAIN tickets) = Returned(Threads)

C11_Witness ==
    /\ \A t \in Threads : Len(threads[t].inserted) = PerThread
    /\ Cardinality(DOMAIN tickets) = NumThreads * PerThread
    /\ tickets[ThreadTicketId(1, 1)].title = Some("T1")
    /\ tickets[ThreadTicketId(2, 1)].title = Some("T2")

\* C12: the store's records are never exposed by reference: a field of a
\* stored ticket changes only in a step of a store method, taken by the
\* caller that holds the lock.
C12_ChangesOnlyUnderLock ==
    [][tickets' # tickets => lock # None]_vars

-----------------------------------------------------------------------------
(* Properties of the tool adapter *)

\* the last operation returned, and made its envelope from a response
FromResponse ==
    /\ envelope # None
    /\ envelope[1].called # None
    /\ envelope[1].called[1].kind = "response"

\* the last operation returned after an exception was raised in it: before
\* its request, by api_client, or on reading the response
FromException ==
    /\ envelope # None
    /\ \/ envelope[1].called = None
       \/ envelope[1].called[1].kind # "response"
       \/ /\ envelope[1].called[1].status_code \in 200..299
          /\ envelope[1].body[1].type = "invalid"

\* C13: every failure envelope an operation returns for a response carries
\* a `retryable` flag, true exactly when the status was >= 500.
C13_RetryableFlag ==
    (FromResponse /\ ~ envelope[1].value.success) =>
        /\ "retryable" \in DOMAIN envelope[1].value
        /\ envelope[1].value.retryable
             = (envelope[1].called[1].status_code >= 500)

\* C14: no exception leaves an operation: whatever api_client did, the
\* operation returns an envelope with a boolean `success`, and with
\* success = false and a message when an exception was raised.
C14_NoExceptionEscapes ==
    /\ envelope # None =>
           /\ "success" \in DOMAIN envelope[1].value
           /\ envelope[1].value.success \in BOOLEAN
    /\ FromException =>
           /\ envelope[1].value.success = FALSE
           /\ "message" \in DOMAIN envelope[1].value
    /\ (tool = None /\ pc \in {"returned", "raised"}) => envelope # None

C14_Witness ==
    /\ envelope # None
    /\ envelope[1].called # None
    /\ envelope[1].called[1].kind = "APIClientError"
    /\ envelope[1].call.op = "update_ticket"
    /\ envelope[1].value.success = FALSE

-----------------------------------------------------------------------------
(* Properties of the failure injection *)

\* a request is inside the middleware, on an exempt path or not
Exempted == sim.path # None /\ sim.path[1] \in {"/health", "/docs", "/openapi.json", "/redoc"}

Simulated == sim.path # None /\ ~ Exempted

\* the step is the step of the handler named in the response, on some
\* request, with nothing added to what the handler does
HandlerRan ==
    \/ last'.op = "create_ticket" /\ \E b \in CreateBodies : create_ticket(b, 1)
    \/ last'.op = "get_tickets" /\ \E status \in StatusFilters : get_tickets(status)
    \/ last'.op = "get_ticket" /\ get_ticket(TicketId(1))
    \/ last'.op = "update_ticket"
          /\ \E b \in LifecycleBodies : update_ticket(TicketId(1), b)
    \/ last'.op = "delete_ticket" /\ delete_ticket(TicketId(1))

\* C15: for every failure_rate and latency interval, a request on /health,
\* /docs, /openapi.json or /redoc goes to its handler with no latency draw,
\* no failure draw and no injected failure, and GET /health is answered 200
\* whatever the store holds.
C15_HealthBypasses ==
    Exempted =>
        /\ sim.delay = None
        /\ sim.random = None
        /\ sim.error_type = None
        /\ sim.forwarded = 1
        /\ last.status_code = 200
        /\ last.op = IF sim.path[1] = "/health" THEN "health_check" ELSE "docs"

C15_Witness ==
    /\ sim.path = Some("/health")
    /\ last.op = "health_check"
    /\ last.status_code = 200
    /\ api_settings.failure_rate = 25
    /\ tickets # <<>>

\* C16: a request on any other path gets one latency draw and one failure
\* draw, and then either a failure is injected, the response has status 500
\* or 503, no handler runs and the store is as it was, or the request goes
\* to its handler once and the response is the handler's.
C16_InjectOrForward ==
    /\ [](Simulated =>
            /\ sim.delay # None
            /\ sim.random # None
            /\ IF sim.error_type # None
                 THEN /\ sim.forwarded = 0
                      /\ last.op = "dispatch"
                      /\ last.status_code \in {500, 503}
                      /\ last.detail[1].error = "SimulatedServerError"
                 ELSE /\ sim.forwarded = 1
                      /\ last.op \in {"create_ticket", "get_tickets",
                                      "get_ticket", "update_ticket",
                                      "delete_ticket"})
    /\ [][(sim = NoDispatch /\ Simulated') =>
            IF sim'.error_type # None
              THEN UNCHANGED <<tickets, clock, deleted>>
              ELSE HandlerRan]_vars

C16_Witness ==
    /\ Simulated
    /\ sim.error_type = Some(503)
    /\ sim.forwarded = 0
    /\ last.status_code \in {500, 503}
    /\ tickets # <<>>

-----------------------------------------------------------------------------
(* Properties of the ticket lifecycle *)

\* the step is a PUT on a stored ticket whose status is one of the three and
\* whose body sets one of the three
SetsStatus ==
    /\ Handles("update_ticket")
    /\ last'.ticket_id[1] \in DOMAIN tickets
    /\ tickets[last'.ticket_id[1]].status \in {Some(s) : s \in TicketStatus}
    /\ last'.body[1].status \in {Some(t) : t \in TicketStatus}

-----------------------------------------------------------------------------
(* Properties of the list request *)

\* C22 as claimed: in every reachable store state and for every value of the
\* status filter, GET /tickets is answered 200 with a sequence of tickets,
\* which may be empty, and never with an error.
C22_ListNeverFails ==
    [][Handles("get_tickets") =>
          /\ last'.status_code = 200
          /\ last'.detail = None
          /\ last'.content # None
          /\ DOMAIN last'.content[1] = 1..Len(last'.content[1])]_vars

\* C22 amended: the answer is 200 with a sequence of stored tickets when the
\* filter is absent or one of OPEN, RESOLVED, CLOSED; any other filter value
\* is answered 422.  The store is unchanged in both cases.
C22_ListNeverFailsIfValid ==
    [][Handles("get_tickets") =>
          /\ IF last'.body = None
                \/ last'.body \in {Some("OPEN"), Some("RESOLVED"), Some("CLOSED")}
               THEN /\ last'.status_code = 200
                    /\ last'.detail = None
                    /\ last'.content # None
                    /\ DOMAIN last'.content[1] = 1..Len(last'.content[1])
                    /\ \A i \in DOMAIN last'.content[1] :
                           /\ last'.content[1][i].id \in DOMAIN tickets
                           /\ tickets[last'.content[1][i].id] = last'.content[1][i]
               ELSE /\ last'.status_code = 422
                    /\ last'.detail[1].error = "RequestValidationError"
                    /\ last'.content = None
          /\ tickets' = tickets]_vars

C22_Witness ==
    /\ last.op = "get_tickets"
    /\ last.status_code = 200
    /\ last.body = Some("CLOSED")
    /\ last.content = Some(<<>>)
    /\ Cardinality(DOMAIN tickets) = 2

-----------------------------------------------------------------------------
(* Properties of concurrent calls on one client *)

\* C23: no retry state is shared across calls: for callers on one client,
\* one after the other or interleaved, each call's attempt index, delays and
\* result are those its own outcomes give: the index counts its own retried
\* outcomes from 0, the k-th delay is base_delay * backoff_factor^k with the
\* first equal to base_delay, a returned response is its own last outcome,
\* and a raised APIClientError carries its own last exception.
C23_CallsIndependent ==
    \A c \in Callers :
        LET f == calls[c]
            n == Len(f.outcomes)
        IN  /\ n <= retry_config.max_retries
            /\ \A i \in 1..(n - 1) : Retryable(f.outcomes[i])
            /\ \A k \in 1..Len(f.sleeps) :
                   f.sleeps[k] = retry_config.base_delay
                                   * Pow(retry_config.backoff_factor, k - 1)
            /\ f.pc = "attempt" => f.attempt = n /\ Len(f.sleeps) = n
            /\ f.pc \in {"after", "returned", "raised"} =>
                   n >= 1 /\ f.attempt = n - 1 /\ Len(f.sleeps) = n - 1
            /\ f.pc = "returned" =>
                   /\ f.outcomes[n].kind = "response"
                   /\ f.result = Some(f.outcomes[n])
                   /\ f.outcomes[n].status_code >= 500 =>
                          n = retry_config.max_retries
            /\ f.pc = "raised" =>
                   /\ n = retry_config.max_retries
                   /\ f.outcomes[n].kind = "exception"
                   /\ f.result = Some(APIClientError(retry_config,
                                          Some(f.outcomes[n].exc)))

\* caller 1 has raised after three attempts while caller 2, entered in
\* between, is in its second attempt after a different exception
C23_Witness ==
    /\ calls[1].pc = "raised"
    /\ calls[1].outcomes[3] = Exception("Timeout")
    /\ calls[2].pc = "attempt"
    /\ calls[2].attempt = 1
    /\ calls[2].sleeps = <<1>>
    /\ calls[2].outcomes = <<Exception("ConnectionError")>>

-----------------------------------------------------------------------------
(* Properties of the requests the tool adapter sends *)

\* the operations that have made a request: the one in progress and the
\* last one that returned
Sent ==
    (IF tool # None THEN {tool[1]} ELSE {})
    \cup (IF envelope # None /\ envelope[1].call.request # None
            THEN {envelope[1].call} ELSE {})

\* u is s with every letter a..z replaced by its capital
IsUpperCaseOf(u, s) ==
    /\ Len(u) = Len(s)
    /\ \A i \in 1..Len(s) :
           /\ \A j \in 1..26 : s[i] = LowerCase[j] => u[i] = UpperCase[j]
           /\ (\A j \in 1..26 : s[i] # LowerCase[j]) => u[i] = s[i]

\* C24: a status string given to update_ticket in any case, and a non-empty
\* status_filter given to get_tickets, is sent in its upper-case form, in
\* the request body and in the query.
C24_StatusUpperCased ==
    \A call \in Sent :
        /\ (call.op = "update_ticket" /\ call.args.status # None) =>
               /\ call.request[1].json # None
               /\ "status" \in DOMAIN call.request[1].json[1]
               /\ IsUpperCaseOf(call.request[1].json[1].status,
                                call.args.status[1].value)
        /\ (call.op = "get_tickets" /\ call.args.status_filter # None
            /\ call.args.status_filter[1].value # <<>>) =>
               /\ call.request[1].params # None
               /\ "status" \in DOMAIN call.request[1].params[1]
               /\ IsUpperCaseOf(call.request[1].params[1].status,
                                call.args.status_filter[1].value)

C24_Witness ==
    /\ envelope # None
    /\ envelope[1].call.op = "update_ticket"
    /\ envelope[1].call.args.status = Some(Str(<<"C", "l", "o", "s", "e", "d">>))
    /\ envelope[1].call.request # None
    /\ envelope[1].call.request[1].json[1].status
         = <<"C", "L", "O", "S", "E", "D">>
    /\ envelope[1].value.success

\* C25: the body update_ticket sends has exactly the keys of the arguments
\* that were given (not None), each with the argument's value, the
\* upper-cased ones in upper case; create_ticket sends title, description
\* and comments, with comments = [] when none were given.
C25_PayloadExact ==
    \A call \in Sent :
        /\ call.op = "update_ticket" =>
               LET json == call.request[1].json[1]
               IN  /\ DOMAIN json = {f \in DOMAIN call.args : call.args[f] # None}
                   /\ \A f \in DOMAIN json :
                          IF f \in {"status", "category", "priority"}
                            THEN IsUpperCaseOf(json[f], call.args[f][1].value)
                            ELSE json[f] = call.args[f][1]
        /\ call.op = "create_ticket" =>
               LET json == call.request[1].json[1]
               IN  /\ DOMAIN json = {"title", "description", "comments"}
                   /\ json.title = call.args.title
                   /\ json.description = call.args.description
                   /\ json.comments = IF call.args.comments = None
                                        THEN <<>> ELSE call.args.comments[1]

C25_Witness ==
    /\ tool # None
    /\ tool[1].op = "update_ticket"
    /\ tool[1].args.resolution = Some("")
    /\ tool[1].args.title = None
    /\ DOMAIN tool[1].request[1].json[1] = {"resolution"}
    /\ tool[1].request[1].json[1].resolution = ""
    /\ pc = "attempt"

-----------------------------------------------------------------------------
(* Properties of the stored records *)

\* C26: the resolution rule only checks presence: a ticket that is OPEN or
\* CLOSED and still carries a non-empty resolution from when it was resolved
\* is set to RESOLVED by a PUT whose body has status RESOLVED and no
\* resolution field; the answer is 200 and the old resolution stays.
C26_StaleResolutionReused ==
    [][(/\ Handles("update_ticket")
        /\ last'.ticket_id[1] \in DOMAIN tickets
        /\ tickets[last'.ticket_id[1]].status \in {Some("OPEN"), Some("CLOSED")}
        /\ tickets[last'.ticket_id[1]].resolution \notin {None, Some("")}
        /\ last'.body[1].status = Some("RESOLVED")
        /\ last'.body[1].resolution = Unset
        /\ LengthsWithinLimits(last'.body[1])) =>
          LET id == last'.ticket_id[1]
          IN  /\ last'.status_code = 200
              /\ tickets'[id].status = Some("RESOLVED")
              /\ tickets'[id].resolution = tickets[id].resolution
              /\ last'.content[1].resolution = tickets[id].resolution]_vars

\* the software ticket, seeded CLOSED with the resolution it was resolved
\* with, has been set to RESOLVED by the first update of the run
C26_Witness ==
    /\ last.op = "update_ticket"
    /\ last.status_code = 200
    /\ last.ticket_id = Some(SampleId(3))
    /\ last.body[1].status = Some("RESOLVED")
    /\ last.body[1].resolution = Unset
    /\ tickets[SampleId(3)].status = Some("RESOLVED")
    /\ tickets[SampleId(3)].resolution = Some("Software installed and configured")
    /\ tickets[SampleId(3)].updated = Some(1)
    /\ clock = 2

\* C29: every stored ticket has a title of 1..200 characters, a description
\* of 1..1000 characters, a status of OPEN, RESOLVED or CLOSED and a comments
\* value that is a sequence of strings.
C29_StoredTicketsValid ==
    \A id \in DOMAIN tickets :
        /\ tickets[id].title # None
        /\ Len(tickets[id].title[1]) \in 1..200
        /\ tickets[id].description # None
        /\ Len(tickets[id].description[1]) \in 1..1000
        /\ tickets[id].status \in {Some("OPEN"), Some("RESOLVED"), Some("CLOSED")}
        /\ tickets[id].comments # None

\* C30: every stored ticket whose status is RESOLVED carries a non-empty
\* resolution.
C30_ResolvedHasResolution ==
    \A id \in DOMAIN tickets :
        tickets[id].status = Some("RESOLVED") =>
            tickets[id].resolution \notin {None, Some("")}

-----------------------------------------------------------------------------
(* Properties of concurrent handlers on one ticket *)

\* caller t returns from the store method `method` in this step
Returns(t, method) ==
    /\ threads[t].pc = method
    /\ lock = Some(t)
    /\ threads'[t].pc # method

\* C27: TicketDatabase.update_ticket never inserts: called with an id that
\* is not in the store it returns None and leaves the store as it was, and
\* under every interleaving of DELETE and PUT on one ticket an id enters the
\* store only in a step of create_ticket, so no step of an update puts a
\* deleted record back.
C27_UpdateNeverInserts ==
    /\ [][\A t \in Threads :
             (/\ Returns(t, "update_ticket")
              /\ threads[t].ticket_id[1] \notin DOMAIN tickets) =>
                 /\ tickets' = tickets
                 /\ threads'[t].response[1].detail # "Ticket"]_vars
    /\ [][\A id \in DOMAIN tickets' \ DOMAIN tickets :
             \E t \in Threads :
                 /\ Returns(t, "create_ticket")
                 /\ threads[t].ticket_id = Some(id)]_vars

\* a DELETE has removed the ticket while a PUT was past its lookup; the PUT
\* has since run its setattr loop and update_ticket, and the store is empty
C27_Witness ==
    /\ threads[1].op = "update_ticket"
    /\ threads[1].pc = "idle"
    /\ threads[1].response # None
    /\ threads[1].response[1].status_code = 500
    /\ threads[1].ticket # None
    /\ threads[1].ticket[1].status = Some("RESOLVED")
    /\ threads[2].op = "delete_ticket"
    /\ threads[2].response # None
    /\ threads[2].response[1].status_code = 200
    /\ tickets = <<>>

-----------------------------------------------------------------------------
(* Properties of failed requests *)

\* C31: a PUT that is answered with an error leaves the store as it was: when
\* the handler answers 404 or 422, and when the middleware answers the
\* request on the ticket's path with an injected 5xx, every stored ticket,
\* the `updated` of the target included, is what it was before the request.
C31_FailedUpdateChangesNothing ==
    /\ [][(Handles("update_ticket") /\ last'.status_code >= 400) =>
             /\ last'.status_code \in {404, 422}
             /\ last'.content = None
             /\ tickets' = tickets]_vars
    /\ [][(/\ sim = NoDispatch
           /\ sim'.path = Some("/tickets/{ticket_id}")
           /\ sim'.error_type # None) =>
             /\ last'.status_code >= 500
             /\ tickets' = tickets]_vars

\* the handler has refused to resolve a stored ticket that has no resolution
C31_Witness ==
    /\ last.op = "update_ticket"
    /\ last.status_code = 422
    /\ last.detail[1].error = "ValidationError"
    /\ last.body[1].resolution = Unset
    /\ sim.forwarded = 1
    /\ tickets[last.ticket_id[1]].status = Some("OPEN")
    /\ tickets[last.ticket_id[1]].updated = None

-----------------------------------------------------------------------------
(* TicketDatabase called directly *)

\* self._tickets.clear()
db_clear(db) == <<>>

\* the Ticket objects a caller of the store passes in
CallerTickets ==
    {[id          |-> id,
      title       |-> Some(title),
      description |-> Some("D1"),
      comments    |-> Some(<<>>),
      created     |-> 0,
      updated     |-> None,
      status      |-> Some("OPEN"),
      resolution  |-> None] : id \in IdSpace, title \in {"T1", "T2"}}

\* a direct call of the store: `last` keeps the method, its arguments and
\* what it returned; nothing else of the application moves
DatabaseCall(method, ticket_id, ticket, returned) ==
    /\ last' = Reply(method, ticket_id, ticket, 0, None, returned)
    /\ UNCHANGED <<deleted, clientVars, toolVars, middlewareVars, threadVars>>

\* ticket_db.create_ticket(ticket)
ticket_db_create_ticket(ticket) ==
    /\ tickets' = db_create_ticket(tickets, ticket)
    /\ UNCHANGED clock
    /\ DatabaseCall("TicketDatabase.create_ticket", None, Some(ticket),
                    Some(ticket))

\* ticket_db.update_ticket(ticket_id, ticket): the ticket is stored under
\* ticket_id whatever its own id is
ticket_db_update_ticket(ticket_id, ticket) ==
    /\ clock <= MaxClock
    /\ tickets' = db_update_ticket(tickets, ticket_id, ticket, clock)
    /\ clock' = IF db_ticket_exists(tickets, ticket_id) THEN clock + 1
                                                        ELSE clock
    /\ DatabaseCall("TicketDatabase.update_ticket", Some(ticket_id),
                    Some(ticket),
                    IF db_ticket_exists(tickets, ticket_id)
                      THEN Some([ticket EXCEPT !.updated = Some(clock)])
                      ELSE None)

\* ticket_db.delete_ticket(ticket_id)
ticket_db_delete_ticket(ticket_id) ==
    /\ tickets' = IF db_ticket_exists(tickets, ticket_id)
                    THEN db_delete_ticket(tickets, ticket_id) ELSE tickets
    /\ UNCHANGED clock
    /\ DatabaseCall("TicketDatabase.delete_ticket", Some(ticket_id), None,
                    Some(db_ticket_exists(tickets, ticket_id)))

\* ticket_db.clear()
ticket_db_clear ==
    /\ tickets' = db_clear(tickets)
    /\ UNCHANGED clock
    /\ DatabaseCall("TicketDatabase.clear", None, None, None)

NextDatabase ==
    \/ \E ticket \in CallerTickets : ticket_db_create_ticket(ticket)
    \/ \E ticket_id \in IdSpace, ticket \in CallerTickets :
           ticket_db_update_ticket(ticket_id, ticket)
    \/ \E ticket_id \in IdSpace : ticket_db_delete_ticket(ticket_id)
    \/ ticket_db_clear

\* the store as constructed, then any sequence of direct calls
SpecDatabase == InitDefault /\ [][NextDatabase]_vars

\* C32: in every reachable state of the store the record stored under a key
\* has that key as its id.
C32_KeyIsId == \A k \in DOMAIN tickets : tickets[k].id = k

-----------------------------------------------------------------------------
(* The session of the client: agent/tools.py lines 45-58.  session.request  *)
(* goes through the HTTPAdapter mounted on http:// and https://, whose      *)
(* urllib3 Retry re-sends a request on its own before session.request       *)
(* returns to the retry loop.                                               *)

\* Retry(total=3, backoff_factor=1, status_forcelist=[429, 500, 502, 503, 504])
RetryTotal == 3

status_forcelist == {429, 500, 502, 503, 504}

\* Retry.DEFAULT_ALLOWED_METHODS, as allowed_methods is not given
allowed_methods == {"HEAD", "GET", "PUT", "DELETE", "OPTIONS", "TRACE"}

\* the methods of APIClient.get, post, put and delete
Methods == {"GET", "POST", "PUT", "DELETE"}

\* the answers the server gives
ServerAnswers == {200, 404, 503}

\* Retry.is_retry(method, status_code), no Retry-After header in the answer
is_retry(method, status_code) ==
    /\ method \in allowed_methods
    /\ status_code \in status_forcelist

\* Retry.increment(...).is_exhausted(): the count left after this retry is
\* below zero
is_exhausted(total) == total - 1 < 0

\* a step of the session leaves the retry loop where it is; what the server
\* does in the step is said by the action the step is joined with
SessionFrame ==
    UNCHANGED <<retry_config, pc, attempt, last_exception, outcomes, sleeps,
                result, calls, toolVars, threadVars>>

\* the server is any server: nothing of the ticket service moves
any_server(step) == step /\ UNCHANGED <<serviceVars, middlewareVars>>

\* session.request is running for the current attempt of the retry loop
InRequest ==
    /\ pc = "attempt"
    /\ session.method # None
    /\ Len(session.answers) = Len(outcomes)

\* APIClient.get / post / put / delete: the method the next call is made
\* with; the session has sent nothing for that call yet
APIClient_method(method) ==
    /\ pc \in {"idle", "returned", "raised"}
    /\ tool = None
    /\ session.method = None \/ pc # "idle"
    /\ session' = [method |-> Some(method), total |-> RetryTotal,
                   wire |-> <<>>, answers |-> <<>>]
    /\ SessionFrame
    /\ UNCHANGED <<serviceVars, middlewareVars>>

\* the session is ready for a call that has not started
Ready == session.method # None /\ session.wire = <<>> /\ session.answers = <<>>
                               /\ session.total = RetryTotal

\* one call of _make_request_with_retry with that method
session_call ==
    /\ Ready
    /\ StartCall

\* HTTPAdapter.send: the request reaches the server, which answers with
\* `code`.  urlopen sends the request again while is_retry holds and the
\* Retry is not exhausted; exhausted, it raises MaxRetryError, which send
\* turns into requests.exceptions.RetryError, a RequestException; any other
\* answer is returned as the response of session.request
HTTPAdapter_send(code) ==
    /\ InRequest
    /\ session' =
         IF is_retry(session.method[1], code)
           THEN IF is_exhausted(session.total)
                  THEN [session EXCEPT
                           !.wire = Append(@, code),
                           !.total = RetryTotal,
                           !.answers = Append(@, Exception("RetryError"))]
                  ELSE [session EXCEPT !.wire = Append(@, code),
                                       !.total = @ - 1]
           ELSE [session EXCEPT !.wire = Append(@, code),
                                !.total = RetryTotal,
                                !.answers = Append(@, Response(code))]
    /\ SessionFrame

\* HTTPAdapter.send: the connection cannot be made and nothing reaches the
\* server.  urlopen tries again until the Retry is exhausted, and send then
\* raises requests.exceptions.ConnectionError
HTTPAdapter_send_fails ==
    /\ InRequest
    /\ session' =
         IF is_exhausted(session.total)
           THEN [session EXCEPT
                    !.total = RetryTotal,
                    !.answers = Append(@, Exception("ConnectionError"))]
           ELSE [session EXCEPT !.total = @ - 1]
    /\ SessionFrame
    /\ UNCHANGED <<serviceVars, middlewareVars>>

\* what session.request gave the retry loop for the current attempt
Answered(o) ==
    /\ pc = "attempt"
    /\ Len(session.answers) = Len(outcomes) + 1
    /\ session.answers[Len(session.answers)] = o

\* line 79: session.request returns, and the loop iteration runs on it
session_request_returns(code) ==
    /\ Answered(Response(code))
    /\ AttemptResponse(code)

\* line 79: session.request raises, and the except clause of line 99 runs
session_request_raises(e) ==
    /\ Answered(Exception(e))
    /\ AttemptException(e)

NextSession ==
    \/ \E method \in Methods : APIClient_method(method)
    \/ session_call
    \/ \E code \in ServerAnswers : any_server(HTTPAdapter_send(code))
    \/ HTTPAdapter_send_fails
    \/ \E code \in ServerAnswers : session_request_returns(code)
    \/ \E e \in {"RetryError", "ConnectionError"} : session_request_raises(e)
    \/ RaiseAfterLoop

\* one call on the client as constructed, through the mounted adapter
SpecSession == Init /\ [][NextSession]_vars

\* C33: the retry loop is the only bound and the only source of re-sends:
\* during one call with max_retries >= 1 at most max_retries requests reach
\* the server, and every 5xx answer of the server is given to the retry loop
\* as a response with that status.
C33_LoopIsOnlyResender ==
    /\ retry_config.max_retries >= 1 =>
           Len(session.wire) <= retry_config.max_retries
    /\ \A i \in 1..Len(session.answers) :
           session.answers[i].kind = "exception" =>
               session.answers[i].exc # "RetryError"

-----------------------------------------------------------------------------
(* Properties of a client configured without attempts *)

\* C34: with max_retries zero or negative the loop body never runs: the call
\* makes no request and no sleep and raises the APIClientError of line 115,
\* which carries max_retries and no cause; and with any max_retries a call
\* that returns returns the response of the last request it made.
C34_NoAttemptsNoRequest ==
    /\ retry_config.max_retries <= 0 =>
          /\ pc \in {"idle", "after", "raised"}
          /\ outcomes = <<>>
          /\ session.wire = <<>>
          /\ sleeps = <<>>
          /\ pc = "raised" =>
                /\ result = Some(APIClientError(retry_config, None))
                /\ result[1].attempts = retry_config.max_retries
    /\ pc = "returned" =>
          /\ outcomes # <<>>
          /\ outcomes[Len(outcomes)].kind = "response"
          /\ result = Some(outcomes[Len(outcomes)])

\* a call on a client with max_retries = 0 has raised
C34_Witness ==
    /\ retry_config.max_retries = 0
    /\ pc = "raised"
    /\ result[1].kind = "APIClientError"
    /\ result[1].attempts = 0
    /\ result[1].cause = None
    /\ outcomes = <<>>
    /\ sleeps = <<>>

-----------------------------------------------------------------------------
(* End to end: a TicketingTools operation, the retry loop, the session     *)
(* with its adapter, the middleware and the handler.  No transport error:  *)
(* every request reaches the server and every response the client.         *)

\* the create_ticket and delete_ticket calls made end to end
EndToEndCalls ==
    [op : {"create_ticket"},
     args : [title : {"", "T1"}, description : {"D1"}, comments : {None}]]
    \cup [op : {"delete_ticket"}, args : [ticket_id : IdSpace]]

\* the TicketCreate body FastAPI reads from the JSON of the request
JsonBody(payload) ==
    [title |-> payload.title, description |-> payload.description,
     comments |-> Some(payload.comments)]

\* the middleware settings end to end: no latency, a failure rate that lets
\* a request fail or pass
EndToEndSettings == [min_latency |-> 0, max_latency |-> 0, failure_rate |-> 25]

\* what response.json() finds in the body of the service's response: the
\* Ticket of a 201, the SuccessResponse of a 200, the detail of an error
ServerBody(called) ==
    IF called.kind = "response" /\ called.status_code = 201
      THEN [type |-> "object", keys |-> {"id"}]
    ELSE IF called.kind = "response" /\ called.status_code = 200
      THEN [type |-> "object", keys |-> {}]
    ELSE [type |-> "object", keys |-> {"detail"}]

\* the operation calls api_client.post or api_client.delete
operation_call(call) ==
    /\ Ready
    /\ session.method[1] = Request(call).method
    /\ tool_call(call)

\* the request of the current attempt reaches the application
request_reaches_server ==
    /\ tool # None
    /\ InRequest
    /\ \/ /\ tool[1].op = "create_ticket"
          /\ \E h \in 1..NumIds :
                 POST_tickets(JsonBody(tool[1].request[1].json[1]), h)
       \/ /\ tool[1].op = "delete_ticket"
          /\ DELETE_ticket(tool[1].args.ticket_id)

\* the response leaves the application and reaches the adapter
response_reaches_client ==
    /\ last # NoRequest
    /\ HTTPAdapter_send(last.status_code)
    /\ last' = NoRequest
    /\ sim' = NoDispatch
    /\ UNCHANGED <<tickets, clock, deleted, api_settings>>

\* the operation returns its envelope
operation_return ==
    /\ result # None
    /\ tool_return(ServerBody(result[1]))

NextEndToEnd ==
    \/ \E method \in {"POST", "DELETE"} : APIClient_method(method)
    \/ \E call \in EndToEndCalls : operation_call(call)
    \/ request_reaches_server
    \/ response_reaches_client
    \/ \E code \in {200, 201, 404, 422, 500, 503} : session_request_returns(code)
    \/ session_request_raises("RetryError")
    \/ RaiseAfterLoop
    \/ operation_return

InitEndToEnd ==
    /\ InitClient
    /\ InitService
    /\ InitTools
    /\ sim = NoDispatch
    /\ api_settings = EndToEndSettings
    /\ InitThreads
    /\ retry_config = [max_retries |-> 2, base_delay |-> 1, backoff_factor |-> 2]

SpecEndToEnd == InitEndToEnd /\ [][NextEndToEnd]_vars

-----------------------------------------------------------------------------
(* Properties end to end *)

\* the requests of the current call that a handler answered with success
Succeeded == {i \in 1..Len(session.wire) : session.wire[i] \in {200, 201}}

\* the step in which the application answers a request
Answers == last = NoRequest /\ last' # NoRequest

\* the store after the step has the tickets it had, and `id` as a new one
Gains(id) ==
    /\ id \notin DOMAIN tickets
    /\ DOMAIN tickets' = DOMAIN tickets \cup {id}
    /\ \A k \in DOMAIN tickets : tickets'[k] = tickets[k]

\* the store after the step has the tickets it had but `id`
Loses(id) ==
    /\ id \in DOMAIN tickets
    /\ DOMAIN tickets' = DOMAIN tickets \ {id}
    /\ \A k \in DOMAIN tickets' : tickets'[k] = tickets[k]

\* within one call at most one request is answered with success, and the
\* envelope says success exactly when one was
OneSuccessPerCall ==
    /\ [](Cardinality(Succeeded) <= 1)
    /\ [][(tool # None /\ tool' = None) =>
             (envelope'[1].value.success <=> Succeeded # {})]_vars

\* the store changes only when a handler answers with success
ChangesOnlyOnSuccess ==
    [][tickets' # tickets =>
          (Answers /\ last'.status_code \in {200, 201})]_vars

\* C35: one create_ticket call adds exactly one ticket to the store when its
\* envelope has success = true and none when it has success = false, and
\* one delete_ticket call removes the named ticket or nothing: within a call
\* at most one request is answered with success, the envelope says success
\* exactly when one was, and the store changes only in that answer, by
\* gaining the created ticket or losing the named one.
C35_OneCallOneTicket ==
    /\ OneSuccessPerCall
    /\ ChangesOnlyOnSuccess
    /\ [][(Answers /\ last'.status_code \in {200, 201}) =>
             IF tool[1].op = "create_ticket"
               THEN Gains(last'.content[1].id)
               ELSE Loses(tool[1].args.ticket_id)]_vars

-----------------------------------------------------------------------------
(* _handle_response on its own: agent/tools.py lines 150-198 *)

\* the statuses a response can carry: the ends of each class and some inside
ResponseStatuses ==
    {100, 199, 200, 204, 299, 300, 304, 399, 400, 404, 422, 499, 500, 503, 599}

\* self._handle_response(response, operation) is called and returns
call_handle_response(status_code, body, op) ==
    /\ envelope' = Some(Envelope(op, Some(Response(status_code)), Some(body),
                        handle_response(status_code, body, ToolOperations[op])))
    /\ UNCHANGED <<tool, clientVars, serviceVars, middlewareVars, threadVars>>

NextHandleResponse ==
    \E status_code \in ResponseStatuses, body \in ResponseBodies,
       op \in DOMAIN ToolOperations :
        call_handle_response(status_code, body, op)

SpecHandleResponse == InitDefault /\ [][NextHandleResponse]_vars

\* response.json() returns: the body is JSON
Parses(body) == body.type # "invalid"

\* error_data.get("detail", ...) finds a detail: the body is a JSON object
\* with that key
HasDetail(body) == body.type = "object" /\ "detail" \in body.keys

\* what the claim and its amendment share: success exactly for a 2xx whose
\* body parses; a status >= 500 gives the status and the server error
\* message whatever the body is; any other status but a 2xx gives the status
\* and success = false
Classified(e) ==
    LET s == e.called[1].status_code
        r == e.value
    IN  /\ r.success <=> (200 <= s /\ s <= 299 /\ Parses(e.body[1]))
        /\ s >= 500 =>
              /\ r.status_code = s
              /\ r.message = Message("Server error during "
                                         \o ToolOperations[e.call],
                                     ToString(s))
        /\ (s < 200 \/ (300 <= s /\ s < 500)) =>
              /\ ~ r.success
              /\ r.status_code = s

\* a status below 500 that is no 2xx
OtherStatus(e) ==
    LET s == e.called[1].status_code IN s < 200 \/ (300 <= s /\ s < 500)

\* C36 as stated: for a status that is neither 2xx nor >= 500 the message is
\* the detail of the body when the body parses and 'HTTP <code>' when it
\* does not.
C36_DetailUnlessUnparseable ==
    envelope # None =>
       /\ Classified(envelope[1])
       /\ OtherStatus(envelope[1]) =>
             envelope[1].value.message =
                IF Parses(envelope[1].body[1])
                  THEN Message("detail", "of the body")
                  ELSE Message("HTTP",
                               ToString(envelope[1].called[1].status_code))

\* C36: success exactly for a 2xx whose body parses; a status >= 500 gives
\* success = false with the status and 'Server error during <operation>'
\* whatever the body is; any other status gives success = false with the
\* status and, as message, the detail of the body when the body is a JSON
\* object that has one, 'HTTP <code>' in every other case.
C36_Classification ==
    envelope # None =>
       /\ Classified(envelope[1])
       /\ OtherStatus(envelope[1]) =>
             envelope[1].value.message =
                IF HasDetail(envelope[1].body[1])
                  THEN Message("detail", "of the body")
                  ELSE Message("HTTP",
                               ToString(envelope[1].called[1].status_code))

\* a 404 whose body is a JSON object without a detail was classified
C36_Witness ==
    /\ envelope # None
    /\ envelope[1].called[1].status_code = 404
    /\ envelope[1].body[1] = [type |-> "object", keys |-> {}]
    /\ ~ envelope[1].value.success
    /\ envelope[1].value.message = Message("HTTP", "404")

====
